---- MODULE Spec2Model ----
(***************************************************************************)
(* Handoff extension of pi-packages (pi-handoff/extensions/handoff.ts).    *)
(*                                                                         *)
(* The extension keeps four registers (pendingHandoff, handoffTimestamp,   *)
(* pendingHandoffText, activeFileMarkers) and registers handlers for       *)
(* session_switch, context, input, agent_end, session_before_compact, the  *)
(* /handoff command and the handoff tool.  Every handler is modelled up to *)
(* its awaits: a handler that awaits (the loader of generateHandoffPrompt, *)
(* ui.select, ctx.newSession) is split at the await, and `pc` names the    *)
(* await it is suspended at.                                               *)
(*                                                                         *)
(* Text is a sequence of lines; a marker occupies a line of its own, as    *)
(* buildFileOperations emits it.                                           *)
(***************************************************************************)
EXTENDS Integers, Sequences, FiniteSets, TLC

\* ---------------------------------------------------------------- bounds
MaxSessions == 2      \* sessions the store may hold
MaxClock == 1         \* Date.now() ranges over 0..MaxClock
MaxFilterLen == 2     \* messages carried by one context event of FilterSpec

\* ------------------------------------------------------------- JS values
\* null / undefined of a path-typed value
Undefined == "undefined"
\* null of a register: the empty option; a value v is held as <<v>>
Null == <<>>
Some(v) == <<v>>

RetUndefined == [kind |-> "undefined"]
RetCancel == [kind |-> "cancel"]
RetThrow == [kind |-> "throw"]
RetContent(t) == [kind |-> "content", text |-> t]
RetMessages(m) == [kind |-> "messages", messages |-> m]
RetTransform(t, images) == [kind |-> "transform", text |-> t, images |-> images]

\* ------------------------------------------------------------ file ops
\* Paths in lexicographic order, the order Array.prototype.sort gives them.
PathOrder == <<"[+1 modified filename]", "[+1 read filename]",
               "src/auth.ts", "src/db.ts", "src/new-file.ts">>

SortPaths(S) == SelectSeq(PathOrder, LAMBDA p : p \in S)

ToolCall(name, path) == [type |-> "toolCall", name |-> name, hasArgs |-> TRUE, path |-> path]
TextBlock == [type |-> "text", name |-> "", hasArgs |-> FALSE, path |-> Undefined]
UserMsg == [role |-> "user", isArray |-> FALSE, content |-> <<>>]
AssistantMsg(blocks) == [role |-> "assistant", isArray |-> TRUE, content |-> blocks]

createFileOps == [read |-> {}, written |-> {}, edited |-> {}]

RECURSIVE extractBlocks(_, _)
extractBlocks(blocks, fileOps) ==
    IF blocks = <<>> THEN fileOps
    ELSE LET block == Head(blocks)
             skip == block.type # "toolCall" \/ ~block.hasArgs \/ block.name = ""
                     \/ block.path = Undefined \/ block.path = ""
             next == IF skip THEN fileOps
                     ELSE IF block.name = "read"
                          THEN [fileOps EXCEPT !.read = @ \cup {block.path}]
                     ELSE IF block.name = "write"
                          THEN [fileOps EXCEPT !.written = @ \cup {block.path}]
                     ELSE IF block.name = "edit"
                          THEN [fileOps EXCEPT !.edited = @ \cup {block.path}]
                     ELSE fileOps
         IN extractBlocks(Tail(blocks), next)

extractFileOpsFromMessage(message, fileOps) ==
    IF message.role # "assistant" THEN fileOps
    ELSE IF ~message.isArray THEN fileOps
    ELSE extractBlocks(message.content, fileOps)

RECURSIVE extractAll(_, _)
extractAll(messages, fileOps) ==
    IF messages = <<>> THEN fileOps
    ELSE extractAll(Tail(messages), extractFileOpsFromMessage(Head(messages), fileOps))

\* Mutant: the marker is in the plural whatever the count.
createReadMarkerPlural(count) ==
    "[+" \o ToString(count) \o " read filenames]"

createReadMarker(count) ==
    "[+" \o ToString(count) \o " read filename" \o (IF count = 1 THEN "" ELSE "s") \o "]"

createModifiedMarker(count) ==
    "[+" \o ToString(count) \o " modified filename" \o (IF count = 1 THEN "" ELSE "s") \o "]"

\* Mutant: a file that was read stays in the read list when it was also modified.
buildFileOperationsKeepsRead(messages) ==
    LET fileOps == extractAll(messages, createFileOps)
        modified == fileOps.edited \cup fileOps.written
        readFiles == SortPaths(fileOps.read)
        modifiedFiles == SortPaths(modified)
        readPart == IF Len(readFiles) > 0
                    THEN <<[marker |-> createReadMarker(Len(readFiles)),
                            expanded |-> <<"<read-files>">> \o readFiles \o <<"</read-files>">>]>>
                    ELSE <<>>
        modPart == IF Len(modifiedFiles) > 0
                   THEN <<[marker |-> createModifiedMarker(Len(modifiedFiles)),
                           expanded |-> <<"<modified-files>">> \o modifiedFiles
                                        \o <<"</modified-files>">>]>>
                   ELSE <<>>
        expansions == readPart \o modPart
    IN IF Len(readFiles) = 0 /\ Len(modifiedFiles) = 0 THEN Null
       ELSE Some([markers |-> [i \in 1..Len(expansions) |-> expansions[i].marker],
                  expansions |-> expansions])

\* Null, or <<[markers, expansions]>>; expansions is the Map in insertion order.
buildFileOperations(messages) ==
    LET fileOps == extractAll(messages, createFileOps)
        modified == fileOps.edited \cup fileOps.written
        readFiles == SortPaths(fileOps.read \ modified)
        modifiedFiles == SortPaths(modified)
        readPart == IF Len(readFiles) > 0
                    THEN <<[marker |-> createReadMarker(Len(readFiles)),
                            expanded |-> <<"<read-files>">> \o readFiles \o <<"</read-files>">>]>>
                    ELSE <<>>
        modPart == IF Len(modifiedFiles) > 0
                   THEN <<[marker |-> createModifiedMarker(Len(modifiedFiles)),
                           expanded |-> <<"<modified-files>">> \o modifiedFiles
                                        \o <<"</modified-files>">>]>>
                   ELSE <<>>
        expansions == readPart \o modPart
    IN IF Len(readFiles) = 0 /\ Len(modifiedFiles) = 0 THEN Null
       ELSE Some([markers |-> [i \in 1..Len(expansions) |-> expansions[i].marker],
                  expansions |-> expansions])

\* replaceAll of one marker over a text of lines
RECURSIVE replaceAll(_, _, _)
replaceAll(text, marker, expanded) ==
    IF text = <<>> THEN <<>>
    ELSE (IF Head(text) = marker THEN expanded ELSE <<Head(text)>>)
         \o replaceAll(Tail(text), marker, expanded)

RECURSIVE expandFileMarkers(_, _)
expandFileMarkers(text, store) ==
    IF store = <<>> THEN text
    ELSE expandFileMarkers(replaceAll(text, Head(store).marker, Head(store).expanded),
                           Tail(store))

\* event.text.includes(marker) for some stored marker
hasMarkers(text, store) ==
    \E i \in 1..Len(store) : \E j \in 1..Len(text) : text[j] = store[i].marker


\* ------------------------------------------------------- summary generator
\* What the loader of generateHandoffPrompt ends with: the user aborts the
\* loader, run() rejects, or complete() resolves with a response.  A text is
\* a sequence of lines; a block's text is a string, that is, one line or more.
Summaries == {<<"## Goal", "Implement OAuth">>}
ErrorMessages == {"context_length_exceeded", Undefined}

TextContent(lines) == [type |-> "text", text |-> lines]
ThinkingContent == [type |-> "thinking", text |-> <<"weighing the goal">>]

Response(stopReason, errorMessage, content) ==
    [how |-> "response", stopReason |-> stopReason, errorMessage |-> errorMessage,
     content |-> content, message |-> ""]

LoaderAborted ==
    [how |-> "abort", stopReason |-> "", errorMessage |-> Undefined, content |-> <<>>,
     message |-> ""]
RunRejected ==
    [how |-> "throw", stopReason |-> "", errorMessage |-> Undefined, content |-> <<>>,
     message |-> "fetch failed"]
NoResponse ==
    [how |-> "", stopReason |-> "", errorMessage |-> Undefined, content |-> <<>>,
     message |-> ""]

Responses ==
    {LoaderAborted, RunRejected}
    \cup {Response("aborted", Undefined, <<>>)}
    \cup {Response("error", e, <<>>) : e \in ErrorMessages}
    \cup {Response("stop", Undefined, <<TextContent(t)>>) : t \in Summaries}
    \cup {Response("stop", Undefined, <<>>)}

\* Responses whose content needs the filter, the join and the trim.
GenResponses ==
    Responses
    \cup {Response("stop", Undefined, c) :
             c \in {<<ThinkingContent>>,
                    <<TextContent(<<"">>)>>,
                    <<TextContent(<<" ">>), ThinkingContent, TextContent(<<"">>)>>,
                    <<ThinkingContent, TextContent(<<"", "## Goal", "Implement OAuth", " ">>)>>,
                    <<TextContent(<<"## Goal">>), TextContent(<<"Implement OAuth">>)>>,
                    <<TextContent(<<"## Goal", "">>), ThinkingContent,
                      TextContent(<<"Implement OAuth">>)>>}}
    \cup {Response("length", Undefined, <<TextContent(<<"## Goal", "Implement OAuth">>)>>)}

ResultNull == [type |-> "null", text |-> <<>>, message |-> ""]
ResultError(m) == [type |-> "error", text |-> <<>>, message |-> m]
ResultPrompt(t) == [type |-> "prompt", text |-> t, message |-> ""]

\* .filter(c => c.type === "text").map(c => c.text).join("\n")
RECURSIVE joinTextBlocks(_)
joinTextBlocks(content) ==
    IF content = <<>> THEN <<>>
    ELSE (IF Head(content).type = "text" THEN Head(content).text ELSE <<>>)
         \o joinTextBlocks(Tail(content))

WhiteLines == {"", " "}

\* .trim(), over lines: the white lines at both ends go
RECURSIVE trimStartLines(_)
trimStartLines(t) ==
    IF t # <<>> /\ Head(t) \in WhiteLines THEN trimStartLines(Tail(t)) ELSE t

RECURSIVE trimEndLines(_)
trimEndLines(t) ==
    IF t # <<>> /\ t[Len(t)] \in WhiteLines THEN trimEndLines(SubSeq(t, 1, Len(t) - 1))
    ELSE t

trimLines(t) == trimEndLines(trimStartLines(t))

\* Mutant: the joined text is used untrimmed.
generateHandoffPromptUntrimmed(resp) ==
    IF resp.how = "abort" THEN ResultNull
    ELSE IF resp.how = "throw" THEN ResultError(resp.message)
    ELSE IF resp.stopReason = "aborted" THEN ResultNull
    ELSE IF resp.stopReason = "error"
         THEN ResultError(IF resp.errorMessage # Undefined THEN resp.errorMessage
                          ELSE "LLM request failed")
    ELSE LET text == joinTextBlocks(resp.content)
         IN IF Len(text) > 0 THEN ResultPrompt(text)
            ELSE ResultError("LLM returned empty response")

generateHandoffPrompt(resp) ==
    IF resp.how = "abort" THEN ResultNull
    ELSE IF resp.how = "throw" THEN ResultError(resp.message)
    ELSE IF resp.stopReason = "aborted" THEN ResultNull
    ELSE IF resp.stopReason = "error"
         THEN ResultError(IF resp.errorMessage # Undefined THEN resp.errorMessage
                          ELSE "LLM request failed")
    ELSE LET text == trimLines(joinTextBlocks(resp.content))
         IN IF Len(text) > 0 THEN ResultPrompt(text)
            ELSE ResultError("LLM returned empty response")

\* ------------------------------------------------------------ conversations
\* Branch projections the session store may hand to gatherConversation, and
\* preparation.messagesToSummarize of a compaction event.
ConvEmpty == <<>>
ConvPlain == <<UserMsg, AssistantMsg(<<TextBlock>>)>>
ConvOps ==
    <<UserMsg,
      AssistantMsg(<<ToolCall("read", "src/auth.ts"), ToolCall("read", "src/db.ts"),
                     ToolCall("edit", "src/auth.ts"), ToolCall("write", "src/new-file.ts")>>)>>
Conversations == {ConvEmpty, ConvPlain, ConvOps}

\* Mutant: an empty branch is handed on like any other.
gatherConversationNoCheck(branch) == Some(branch)

gatherConversation(branch) == IF Len(branch) = 0 THEN Null ELSE Some(branch)

\* args of the /handoff command, as characters
Args == {<<>>, <<" ", " ">>, <<" ", "g", " ">>}

RECURSIVE TrimStart(_)
TrimStart(s) == IF s # <<>> /\ Head(s) = " " THEN TrimStart(Tail(s)) ELSE s

RECURSIVE TrimEnd(_)
TrimEnd(s) == IF s # <<>> /\ s[Len(s)] = " " THEN TrimEnd(SubSeq(s, 1, Len(s) - 1)) ELSE s

\* Mutant: the goal is taken untrimmed.
TrimNot(s) == s

Trim(s) == TrimEnd(TrimStart(s))

\* ------------------------------------------------------------------ state
VARIABLES
    persist,             \* the session manager writes session files
    hasUI,               \* ctx.hasUI
    current,             \* the current session
    nSessions,           \* sessions created so far
    parentOf,            \* header.parentSession of every session
    agentRunning,        \* an agent loop is active
    clock,               \* Date.now()
    pendingHandoff,      \* let pendingHandoff
    handoffTimestamp,    \* let handoffTimestamp
    pendingHandoffText,  \* const pendingHandoffText = new Map()
    activeFileMarkers,   \* let activeFileMarkers
    editorText,          \* what ui.setEditorText put in the editor, until it is submitted
    timers,              \* callbacks scheduled by setTimeout(.., 0)
    pc,                  \* the await the running handler is suspended at
    frame,               \* locals of the suspended handler
    fx,                  \* calls made by the handler that ran last, in order
    ret,                 \* what the handler that ran last returned
    last,                \* the handler that ran last and what it was given
    owed,                \* handoffs whose session exists and whose prompt is not in the editor yet
    epoch                \* "clean" from a session_switch event to the next raw newSession call

registers == <<pendingHandoff, handoffTimestamp, pendingHandoffText, activeFileMarkers>>
store == <<persist, current, nSessions, parentOf>>
vars == <<persist, hasUI, current, nSessions, parentOf, agentRunning, clock, pendingHandoff,
          handoffTimestamp, pendingHandoffText, activeFileMarkers, editorText, timers, pc,
          frame, fx, ret, last, owed, epoch>>

Sessions == 1..MaxSessions
FilePath(i) == "/S/" \o ToString(i) \o ".jsonl"

\* sessionManager.getSessionFile()
getSessionFile == IF persist THEN FilePath(current) ELSE Undefined

EmptyMap == [k \in {} |-> <<>>]
MapSet(m, k, v) == [x \in DOMAIN m \cup {k} |-> IF x = k THEN v ELSE m[x]]
MapDelete(m, k) == [x \in DOMAIN m \ {k} |-> m[x]]

\* ------------------------------------------------------------ ancestry
\* What a file's first line may hold in place of a session header: nothing,
\* text JSON.parse rejects, an entry of another type.  parentOf[i] is one of
\* these, or the parentSession of the header (Undefined when it has none).
HeaderFaults == {"<empty line>", "<not JSON>", "<not a session>"}

\* The header on disk of a session file: Null when the file does not exist
\* or does not start with a session header.
getSessionHeader(sessionFile) ==
    IF persist /\ \E i \in 1..nSessions : FilePath(i) = sessionFile /\ parentOf[i] \notin HeaderFaults
    THEN Some([parentSession |-> parentOf[CHOOSE i \in 1..nSessions : FilePath(i) = sessionFile]])
    ELSE Null

RECURSIVE walkAncestry(_, _, _)
walkAncestry(cur, visited, ancestry) ==
    IF cur = Undefined \/ cur \in visited THEN ancestry
    ELSE LET header == getSessionHeader(cur)
         IN walkAncestry(IF header = Null THEN Undefined ELSE header[1].parentSession,
                         visited \cup {cur}, Append(ancestry, cur))

getSessionAncestry(parentSessionFile) == walkAncestry(parentSessionFile, {}, <<>>)

SkillDirective == "/skill:pi-session-query"
\* U+0060, which cannot be written inside a TLA+ string
Backquote == "<bq>"
ParentLine(f) == "**Parent session:** " \o Backquote \o f \o Backquote
AncestorLine(f) == "- " \o Backquote \o f \o Backquote

\* Mutant: the header is written whether or not there is a parent session file.
wrapWithParentSessionAlways(prompt, parentSessionFile) ==
    <<SkillDirective, "", ParentLine(parentSessionFile)>> \o prompt

\* Mutant: only the parent is listed, never the ancestors behind it.
wrapWithParentSessionParentOnly(prompt, parentSessionFile) ==
    IF parentSessionFile = Undefined THEN prompt
    ELSE <<SkillDirective, "", ParentLine(getSessionAncestry(parentSessionFile)[1])>> \o prompt

\* The last header line is empty, so the prompt's first line follows the
\* header's last line break.
wrapWithParentSession(prompt, parentSessionFile) ==
    IF parentSessionFile = Undefined THEN prompt
    ELSE LET ancestry == getSessionAncestry(parentSessionFile)
             rest == IF Len(ancestry) > 1
                     THEN <<"", "**Ancestor sessions:**">>
                          \o [i \in 1..(Len(ancestry) - 1) |-> AncestorLine(ancestry[i + 1])]
                     ELSE <<>>
         IN <<SkillDirective, "", ParentLine(ancestry[1])>> \o rest \o prompt

\* `${result.text}\n\n${fileOps.markers}` or result.text
assemble(text, fileOps) ==
    IF fileOps = Null THEN text ELSE text \o <<"">> \o fileOps[1].markers

HandoffReady == <<"Handoff ready", " - edit if needed, press Enter to send">>


\* Every variable but the ones a function under study reads and writes.
aside == <<persist, hasUI, current, nSessions, parentOf, agentRunning, clock, pendingHandoff,
           handoffTimestamp, pendingHandoffText, timers, fx, last, owed, epoch>>

\* --------------------------------------------------------------- effects
\* A call a handler made on the UI, the model client or the session store.
Notify(by, text, level) ==
    [op |-> "notify", by |-> by, text |-> text, level |-> level]
SetEditorText(by, text) == [op |-> "setEditorText", by |-> by, text |-> text]
Complete(by) == [op |-> "complete", by |-> by]
\* sessionFile is what getSessionFile() answers when the call is made, stamp
\* is what handoffTimestamp holds then
NewSession(by, api, parentSession, threw, stamp) ==
    [op |-> "newSession", by |-> by, api |-> api, parentSession |-> parentSession,
     sessionFile |-> getSessionFile, threw |-> threw, stamp |-> stamp]

RetPending == [kind |-> "pending"]

LastOf(h) ==
    [h |-> h, done |-> TRUE, model |-> TRUE, choice |-> "", gen |-> "", message |-> "",
     threw |-> FALSE, armed |-> FALSE, payload |-> <<>>, T |-> Null, empty |-> FALSE,
     resp |-> NoResponse, text |-> <<>>, images |-> <<>>]

\* owed, once `text` has been put in the editor
Installed(o, text) == {h \in o : h.prompt # text}

Init ==
    /\ persist \in BOOLEAN
    /\ hasUI \in BOOLEAN
    /\ current = 1
    /\ nSessions = 1
    /\ parentOf = [i \in Sessions |-> Undefined]
    /\ agentRunning = FALSE
    /\ clock = 0
    /\ pendingHandoff = Null
    /\ handoffTimestamp = Null
    /\ pendingHandoffText = EmptyMap
    /\ activeFileMarkers = <<>>
    /\ editorText = <<>>
    /\ timers = <<>>
    /\ pc = "idle"
    /\ frame = Null
    /\ fx = <<>>
    /\ ret = RetUndefined
    /\ last = LastOf("init")
    /\ owed = {}
    /\ epoch = "start"

\* sessionManager.newSession({ parentSession }) having succeeded
CreateSession(parentSession) ==
    /\ nSessions' = nSessions + 1
    /\ current' = nSessions + 1
    /\ parentOf' = [parentOf EXCEPT ![nSessions + 1] = parentSession]

\* Mutant: handoffTimestamp is cleared after the early return instead of before it.
sessionSwitchHandlerLateClear(reason, base, due) ==
    /\ handoffTimestamp' = IF reason # "new" \/ ~hasUI THEN handoffTimestamp ELSE Null
    /\ epoch' = "clean"
    /\ LET parentSession == parentOf'[current']
           hit == /\ reason = "new" /\ hasUI
                  /\ parentSession # Undefined
                  /\ parentSession \in DOMAIN pendingHandoffText
       IN IF hit
          THEN LET text == pendingHandoffText[parentSession]
               IN /\ editorText' = text
                  /\ fx' = base \o <<SetEditorText("session_switch", text),
                                     Notify("session_switch", HandoffReady, "info")>>
                  /\ pendingHandoffText' = MapDelete(pendingHandoffText, parentSession)
                  /\ owed' = Installed(due, text)
          ELSE /\ fx' = base
               /\ owed' = due
               /\ UNCHANGED <<editorText, pendingHandoffText>>
    /\ UNCHANGED <<pendingHandoff, activeFileMarkers>>

\* Mutant: the handler leaves the entry it installed in pendingHandoffText.
sessionSwitchHandlerKeepsEntry(reason, base, due) ==
    /\ handoffTimestamp' = Null
    /\ epoch' = "clean"
    /\ LET parentSession == parentOf'[current']
           hit == /\ reason = "new" /\ hasUI
                  /\ parentSession # Undefined
                  /\ parentSession \in DOMAIN pendingHandoffText
       IN IF hit
          THEN LET text == pendingHandoffText[parentSession]
               IN /\ editorText' = text
                  /\ fx' = base \o <<SetEditorText("session_switch", text),
                                     Notify("session_switch", HandoffReady, "info")>>
                  /\ owed' = Installed(due, text)
                  /\ UNCHANGED pendingHandoffText
          ELSE /\ fx' = base
               /\ owed' = due
               /\ UNCHANGED <<editorText, pendingHandoffText>>
    /\ UNCHANGED <<pendingHandoff, activeFileMarkers>>

\* Mutant: the handler serves a pending text without asking for a UI.
sessionSwitchHandlerHeadless(reason, base, due) ==
    /\ handoffTimestamp' = Null
    /\ epoch' = "clean"
    /\ LET parentSession == parentOf'[current']
           hit == /\ reason = "new"
                  /\ parentSession # Undefined
                  /\ parentSession \in DOMAIN pendingHandoffText
       IN IF hit
          THEN LET text == pendingHandoffText[parentSession]
               IN /\ editorText' = text
                  /\ fx' = base \o <<SetEditorText("session_switch", text),
                                     Notify("session_switch", HandoffReady, "info")>>
                  /\ pendingHandoffText' = MapDelete(pendingHandoffText, parentSession)
                  /\ owed' = Installed(due, text)
          ELSE /\ fx' = base
               /\ owed' = due
               /\ UNCHANGED <<editorText, pendingHandoffText>>
    /\ UNCHANGED <<pendingHandoff, activeFileMarkers>>

\* ------------------------------------------------------- session_switch
\* The handler, run by the host after the store has switched: `base` is fx
\* and `due` is owed before the handler runs.
sessionSwitchHandler(reason, base, due) ==
    /\ handoffTimestamp' = Null
    /\ epoch' = "clean"
    /\ LET parentSession == parentOf'[current']
           hit == /\ reason = "new" /\ hasUI
                  /\ parentSession # Undefined
                  /\ parentSession \in DOMAIN pendingHandoffText
       IN IF hit
          THEN LET text == pendingHandoffText[parentSession]
               IN /\ editorText' = text
                  /\ fx' = base \o <<SetEditorText("session_switch", text),
                                     Notify("session_switch", HandoffReady, "info")>>
                  /\ pendingHandoffText' = MapDelete(pendingHandoffText, parentSession)
                  /\ owed' = Installed(due, text)
          ELSE /\ fx' = base
               /\ owed' = due
               /\ UNCHANGED <<editorText, pendingHandoffText>>
    /\ UNCHANGED <<pendingHandoff, activeFileMarkers>>

\* The host switches sessions on its own (/new, /resume) and fires the event.
SessionSwitchEvent(reason, target) ==
    /\ pc = "idle" /\ ~agentRunning
    /\ \/ /\ reason = "new" /\ nSessions < MaxSessions
          /\ CreateSession(Undefined)
       \/ /\ reason = "resume" /\ target \in 1..nSessions /\ target # current
          /\ current' = target
          /\ UNCHANGED <<nSessions, parentOf>>
    /\ sessionSwitchHandler(reason, <<>>, owed)
    /\ ret' = RetUndefined
    /\ last' = [LastOf("session_switch") EXCEPT !.choice = reason]
    /\ UNCHANGED <<persist, hasUI, agentRunning, clock, timers, pc, frame>>

\* The host opens a new session whose header names an existing session file
\* as its parent, and fires the event.
SessionSwitchChild(parent) ==
    /\ pc = "idle" /\ ~agentRunning
    /\ persist /\ nSessions < MaxSessions
    /\ parent \in 1..nSessions
    /\ CreateSession(FilePath(parent))
    /\ sessionSwitchHandler("new", <<>>, owed)
    /\ ret' = RetUndefined
    /\ last' = [LastOf("session_switch") EXCEPT !.choice = "new"]
    /\ UNCHANGED <<persist, hasUI, agentRunning, clock, timers, pc, frame>>

\* Mutant: the filter compares with > instead of >=.
contextFilterStrict(messages, T) ==
    IF T = Null THEN RetUndefined
    ELSE LET newMessages == SelectSeq(messages, LAMBDA m : m.timestamp > T[1])
         IN IF Len(newMessages) > 0 THEN RetMessages(newMessages) ELSE RetUndefined

\* -------------------------------------------------------------- context
contextFilter(messages, T) ==
    IF T = Null THEN RetUndefined
    ELSE LET newMessages == SelectSeq(messages, LAMBDA m : m.timestamp >= T[1])
         IN IF Len(newMessages) > 0 THEN RetMessages(newMessages) ELSE RetUndefined

Timestamps == 0..MaxClock
CtxMessages(maxLen) ==
    UNION {[1..n -> [timestamp : Timestamps]] : n \in 0..maxLen}

\* context events of no message or one, for the handlers taken together
CtxSingles == {<<>>} \cup {<<[timestamp |-> t]>> : t \in Timestamps}

Context(messages) ==
    /\ pc = "idle" /\ agentRunning
    /\ ret' = contextFilter(messages, handoffTimestamp)
    /\ fx' = <<>>
    /\ last' = [LastOf("context") EXCEPT !.payload = messages, !.T = handoffTimestamp]
    /\ UNCHANGED <<store, hasUI, agentRunning, clock, registers, editorText, timers, pc,
                   frame, owed, epoch>>

\* ---------------------------------------------------------------- input
\* Mutant: the marker store survives the expansion.
InputKeepsMarkers(text, images) ==
    /\ pc = "idle"
    /\ IF activeFileMarkers = <<>> \/ ~hasMarkers(text, activeFileMarkers)
       THEN ret' = RetUndefined
       ELSE ret' = RetTransform(expandFileMarkers(text, activeFileMarkers), images)
    /\ fx' = <<>>
    /\ editorText' = <<>>
    /\ last' = [LastOf("input") EXCEPT !.payload = text, !.images = images]
    /\ UNCHANGED <<store, hasUI, agentRunning, clock, registers, timers, pc, frame, owed,
                   epoch>>

\* The user submits a text: the host empties the editor and fires the event.
Input(text, images) ==
    /\ pc = "idle"
    /\ IF activeFileMarkers = <<>> \/ ~hasMarkers(text, activeFileMarkers)
       THEN /\ ret' = RetUndefined
            /\ UNCHANGED activeFileMarkers
       ELSE /\ ret' = RetTransform(expandFileMarkers(text, activeFileMarkers), images)
            /\ activeFileMarkers' = <<>>
    /\ fx' = <<>>
    /\ editorText' = <<>>
    /\ last' = [LastOf("input") EXCEPT !.payload = text, !.images = images]
    /\ UNCHANGED <<store, hasUI, agentRunning, clock, pendingHandoff, handoffTimestamp,
                   pendingHandoffText, timers, pc, frame, owed, epoch>>

\* Mutant: agent_end does not clear pendingHandoff.
AgentEndKeepsPending(threw) ==
    /\ pc = "idle" /\ agentRunning
    /\ agentRunning' = FALSE
    /\ last' = [LastOf("agent_end") EXCEPT !.armed = (pendingHandoff # Null), !.threw = threw]
    /\ IF pendingHandoff = Null
       THEN /\ threw = FALSE
            /\ fx' = <<>>
            /\ ret' = RetUndefined
            /\ UNCHANGED <<store, registers, timers, owed, epoch>>
       ELSE LET prompt == pendingHandoff[1].prompt
                parentSession == pendingHandoff[1].parentSession
            IN /\ UNCHANGED pendingHandoff
               /\ handoffTimestamp' = Some(clock)
               /\ epoch' = "raw"
               /\ fx' = <<NewSession("agent_end", "sessionManager.newSession",
                                     parentSession, threw, Some(clock))>>
               /\ IF threw
                  THEN /\ ret' = RetThrow
                       /\ UNCHANGED <<store, timers, owed>>
                  ELSE /\ CreateSession(parentSession)
                       /\ timers' = Append(timers, [prompt |-> prompt])
                       /\ owed' = owed \cup {[session |-> nSessions + 1, prompt |-> prompt,
                                              via |-> "tool"]}
                       /\ ret' = RetUndefined
                       /\ UNCHANGED persist
               /\ UNCHANGED <<pendingHandoffText, activeFileMarkers>>
    /\ UNCHANGED <<hasUI, clock, editorText, pc, frame>>

\* ------------------------------------------------------------ agent_end
\* Mutant: agent_end stamps the handoff after the raw newSession call.
AgentEndStampsLate(threw) ==
    /\ pc = "idle" /\ agentRunning
    /\ agentRunning' = FALSE
    /\ last' = [LastOf("agent_end") EXCEPT !.armed = (pendingHandoff # Null), !.threw = threw]
    /\ IF pendingHandoff = Null
       THEN /\ threw = FALSE
            /\ fx' = <<>>
            /\ ret' = RetUndefined
            /\ UNCHANGED <<store, registers, timers, owed, epoch>>
       ELSE LET prompt == pendingHandoff[1].prompt
                parentSession == pendingHandoff[1].parentSession
            IN /\ pendingHandoff' = Null
               /\ handoffTimestamp' = IF threw THEN handoffTimestamp ELSE Some(clock)
               /\ epoch' = "raw"
               /\ fx' = <<NewSession("agent_end", "sessionManager.newSession",
                                     parentSession, threw, handoffTimestamp)>>
               /\ IF threw
                  THEN /\ ret' = RetThrow
                       /\ UNCHANGED <<store, timers, owed>>
                  ELSE /\ CreateSession(parentSession)
                       /\ timers' = Append(timers, [prompt |-> prompt])
                       /\ owed' = owed \cup {[session |-> nSessions + 1, prompt |-> prompt,
                                              via |-> "tool"]}
                       /\ ret' = RetUndefined
                       /\ UNCHANGED persist
               /\ UNCHANGED <<pendingHandoffText, activeFileMarkers>>
    /\ UNCHANGED <<hasUI, clock, editorText, pc, frame>>

\* The handler up to and including the raw newSession call, which may throw.
AgentEnd(threw) ==
    /\ pc = "idle" /\ agentRunning
    /\ agentRunning' = FALSE
    /\ last' = [LastOf("agent_end") EXCEPT !.armed = (pendingHandoff # Null), !.threw = threw]
    /\ IF pendingHandoff = Null
       THEN /\ threw = FALSE
            /\ fx' = <<>>
            /\ ret' = RetUndefined
            /\ UNCHANGED <<store, registers, timers, owed, epoch>>
       ELSE LET prompt == pendingHandoff[1].prompt
                parentSession == pendingHandoff[1].parentSession
            IN /\ pendingHandoff' = Null
               /\ handoffTimestamp' = Some(clock)
               /\ epoch' = "raw"
               /\ fx' = <<NewSession("agent_end", "sessionManager.newSession",
                                     parentSession, threw, Some(clock))>>
               /\ IF threw
                  THEN /\ ret' = RetThrow
                       /\ UNCHANGED <<store, timers, owed>>
                  ELSE /\ CreateSession(parentSession)
                       /\ timers' = Append(timers, [prompt |-> prompt])
                       /\ owed' = owed \cup {[session |-> nSessions + 1, prompt |-> prompt,
                                              via |-> "tool"]}
                       /\ ret' = RetUndefined
                       /\ UNCHANGED persist
               /\ UNCHANGED <<pendingHandoffText, activeFileMarkers>>
    /\ UNCHANGED <<hasUI, clock, editorText, pc, frame>>

\* The callback agent_end handed to setTimeout(.., 0).
TimerFire ==
    /\ timers # <<>>
    /\ timers' = Tail(timers)
    /\ LET prompt == Head(timers).prompt
           calls == IF hasUI
                    THEN <<SetEditorText("timer", prompt), Notify("timer", HandoffReady, "info")>>
                    ELSE <<>>
       IN /\ editorText' = IF hasUI THEN prompt ELSE editorText
          /\ owed' = IF hasUI THEN Installed(owed, prompt) ELSE owed
          /\ IF pc = "idle"
             THEN fx' = calls /\ last' = LastOf("timer") /\ ret' = RetUndefined
             ELSE fx' = fx \o calls /\ UNCHANGED <<last, ret>>
    /\ UNCHANGED <<store, hasUI, agentRunning, clock, registers, pc, frame, epoch>>


\* ---------------------------------------------------------- handoff tool
NoModelSelected == <<"No model selected.">>
NoConversation == <<"No conversation to hand off.">>
HandoffCancelled == <<"Handoff cancelled.">>
\* Mutant: the failure text leaves the message out.
HandoffFailedBare(message) == <<"Handoff failed">>

HandoffFailed(message) == <<"Handoff failed: ", message>>
HandoffInitiated ==
    <<"Handoff initiated", ". The session will switch after the current turn completes.">>

\* execute() up to the await of generateHandoffPrompt
ToolStart(model, branch) ==
    /\ pc = "idle" /\ agentRunning /\ nSessions < MaxSessions
    /\ LET conv == gatherConversation(branch)
           early == IF ~hasUI THEN <<"Handoff requires interactive mode.">>
                    ELSE IF ~model THEN NoModelSelected
                    ELSE IF conv = Null THEN NoConversation
                    ELSE <<>>
       IN IF early # <<>>
          THEN /\ ret' = RetContent(early)
               /\ fx' = <<>>
               /\ last' = [LastOf("tool") EXCEPT !.model = model, !.empty = (branch = <<>>)]
               /\ UNCHANGED <<pc, frame>>
          ELSE /\ ret' = RetPending
               /\ fx' = <<Complete("tool")>>
               /\ last' = [LastOf("tool") EXCEPT !.done = FALSE, !.model = model,
                                                  !.empty = (branch = <<>>)]
               /\ pc' = "tool_gen"
               /\ frame' = Some([messages |-> conv[1]])
    /\ UNCHANGED <<store, hasUI, agentRunning, clock, registers, editorText, timers, owed, epoch>>

\* Mutant: execute() switches the session itself instead of deferring.
ToolGenDoneSwitching(resp) ==
    /\ pc = "tool_gen"
    /\ pc' = "idle" /\ frame' = Null
    /\ LET result == generateHandoffPrompt(resp)
       IN /\ last' = [LastOf("tool") EXCEPT !.gen = result.type, !.message = result.message,
                                             !.resp = resp, !.text = result.text,
                                             !.armed = (pendingHandoff # Null)]
          /\ IF result.type = "null"
             THEN /\ ret' = RetContent(HandoffCancelled)
                  /\ UNCHANGED registers
             ELSE IF result.type = "error"
             THEN /\ ret' = RetContent(HandoffFailed(result.message))
                  /\ UNCHANGED registers
             ELSE LET fileOps == buildFileOperations(frame[1].messages)
                      currentSessionFile == getSessionFile
                      prompt == wrapWithParentSession(assemble(result.text, fileOps),
                                                      currentSessionFile)
                  IN /\ activeFileMarkers' = IF fileOps # Null THEN fileOps[1].expansions
                                             ELSE activeFileMarkers
                     /\ pendingHandoff' = Some([prompt |-> prompt,
                                                parentSession |-> currentSessionFile])
                     /\ ret' = RetContent(HandoffInitiated)
                     /\ UNCHANGED <<handoffTimestamp, pendingHandoffText>>
    /\ IF generateHandoffPrompt(resp).type = "prompt"
       THEN CreateSession(getSessionFile) /\ UNCHANGED persist
       ELSE UNCHANGED store
    /\ UNCHANGED <<hasUI, agentRunning, clock, editorText, timers, fx, owed, epoch>>

\* Mutant: execute() saves the current header's parent instead of the session file.
ToolGenDoneHeaderParent(resp) ==
    /\ pc = "tool_gen"
    /\ pc' = "idle" /\ frame' = Null
    /\ LET result == generateHandoffPrompt(resp)
       IN /\ last' = [LastOf("tool") EXCEPT !.gen = result.type, !.message = result.message,
                                             !.resp = resp, !.text = result.text,
                                             !.armed = (pendingHandoff # Null)]
          /\ IF result.type = "null"
             THEN /\ ret' = RetContent(HandoffCancelled)
                  /\ UNCHANGED registers
             ELSE IF result.type = "error"
             THEN /\ ret' = RetContent(HandoffFailed(result.message))
                  /\ UNCHANGED registers
             ELSE LET fileOps == buildFileOperations(frame[1].messages)
                      currentSessionFile == getSessionFile
                      prompt == wrapWithParentSession(assemble(result.text, fileOps),
                                                      currentSessionFile)
                  IN /\ activeFileMarkers' = IF fileOps # Null THEN fileOps[1].expansions
                                             ELSE activeFileMarkers
                     /\ pendingHandoff' = Some([prompt |-> prompt,
                                                parentSession |-> parentOf[current]])
                     /\ ret' = RetContent(HandoffInitiated)
                     /\ UNCHANGED <<handoffTimestamp, pendingHandoffText>>
    /\ UNCHANGED <<store, hasUI, agentRunning, clock, editorText, timers, fx, owed, epoch>>

\* Mutant: a handoff already pending is kept; the new one is dropped.
ToolGenDoneFirstWins(resp) ==
    /\ pc = "tool_gen"
    /\ pc' = "idle" /\ frame' = Null
    /\ LET result == generateHandoffPrompt(resp)
       IN /\ last' = [LastOf("tool") EXCEPT !.gen = result.type, !.message = result.message,
                                             !.resp = resp, !.text = result.text,
                                             !.armed = (pendingHandoff # Null)]
          /\ IF result.type = "null"
             THEN /\ ret' = RetContent(HandoffCancelled)
                  /\ UNCHANGED registers
             ELSE IF result.type = "error"
             THEN /\ ret' = RetContent(HandoffFailed(result.message))
                  /\ UNCHANGED registers
             ELSE LET fileOps == buildFileOperations(frame[1].messages)
                      currentSessionFile == getSessionFile
                      prompt == wrapWithParentSession(assemble(result.text, fileOps),
                                                      currentSessionFile)
                  IN /\ activeFileMarkers' = IF fileOps # Null THEN fileOps[1].expansions
                                             ELSE activeFileMarkers
                     /\ pendingHandoff' = IF pendingHandoff # Null THEN pendingHandoff
                                          ELSE Some([prompt |-> prompt,
                                                     parentSession |-> currentSessionFile])
                     /\ ret' = RetContent(HandoffInitiated)
                     /\ UNCHANGED <<handoffTimestamp, pendingHandoffText>>
    /\ UNCHANGED <<store, hasUI, agentRunning, clock, editorText, timers, fx, owed, epoch>>

\* execute() from the result of generateHandoffPrompt to its return
ToolGenDone(resp) ==
    /\ pc = "tool_gen"
    /\ pc' = "idle" /\ frame' = Null
    /\ LET result == generateHandoffPrompt(resp)
       IN /\ last' = [LastOf("tool") EXCEPT !.gen = result.type, !.message = result.message,
                                             !.resp = resp, !.text = result.text,
                                             !.armed = (pendingHandoff # Null)]
          /\ IF result.type = "null"
             THEN /\ ret' = RetContent(HandoffCancelled)
                  /\ UNCHANGED registers
             ELSE IF result.type = "error"
             THEN /\ ret' = RetContent(HandoffFailed(result.message))
                  /\ UNCHANGED registers
             ELSE LET fileOps == buildFileOperations(frame[1].messages)
                      currentSessionFile == getSessionFile
                      prompt == wrapWithParentSession(assemble(result.text, fileOps),
                                                      currentSessionFile)
                  IN /\ activeFileMarkers' = IF fileOps # Null THEN fileOps[1].expansions
                                             ELSE activeFileMarkers
                     /\ pendingHandoff' = Some([prompt |-> prompt,
                                                parentSession |-> currentSessionFile])
                     /\ ret' = RetContent(HandoffInitiated)
                     /\ UNCHANGED <<handoffTimestamp, pendingHandoffText>>
    /\ UNCHANGED <<store, hasUI, agentRunning, clock, editorText, timers, fx, owed, epoch>>

\* ------------------------------------------------ session_before_compact
Choices == {"Handoff to new session", "Compact context", "Continue without either", Undefined}
CompactingInstead == ". Compacting instead."
HandoffCancelledCompacting == <<"Handoff cancelled", CompactingInstead>>
HandoffFailedCompacting(message) == <<"Handoff failed: ", message, CompactingInstead>>
\* Mutant: the warning does not say what happens instead.
SwitchFailedBare(message) == <<"Session switch failed: ", message>>

SwitchFailedCompacting(message) == <<"Session switch failed: ", message, CompactingInstead>>

\* the handler up to the await of ui.select
CompactStart(model, messagesToSummarize) ==
    /\ pc = "idle" /\ ~agentRunning /\ nSessions < MaxSessions
    /\ fx' = <<>>
    /\ IF ~hasUI \/ ~model
       THEN /\ ret' = RetUndefined
            /\ last' = [LastOf("compact") EXCEPT !.model = model]
            /\ UNCHANGED <<pc, frame>>
       ELSE /\ ret' = RetPending
            /\ last' = [LastOf("compact") EXCEPT !.done = FALSE]
            /\ pc' = "cmp_select"
            /\ frame' = Some([messages |-> messagesToSummarize])
    /\ UNCHANGED <<store, hasUI, agentRunning, clock, registers, editorText, timers, owed, epoch>>

\* Mutant: a dismissed dialog is taken for "Continue without either".
CompactChoiceDismissCancels(choice) ==
    /\ pc = "cmp_select"
    /\ IF choice = "Compact context"
       THEN /\ ret' = RetUndefined
            /\ last' = [LastOf("compact") EXCEPT !.choice = choice]
            /\ pc' = "idle" /\ frame' = Null
            /\ UNCHANGED fx
       ELSE IF choice = "Continue without either" \/ choice = Undefined
       THEN /\ ret' = RetCancel
            /\ last' = [LastOf("compact") EXCEPT !.choice = choice]
            /\ pc' = "idle" /\ frame' = Null
            /\ UNCHANGED fx
       ELSE /\ fx' = Append(fx, Complete("compact"))
            /\ last' = [LastOf("compact") EXCEPT !.choice = choice, !.done = FALSE]
            /\ pc' = "cmp_gen"
            /\ UNCHANGED <<ret, frame>>
    /\ UNCHANGED <<store, hasUI, agentRunning, clock, registers, editorText, timers, owed, epoch>>

\* Mutant: choosing "Compact context" emits a notification.
CompactChoiceNotifies(choice) ==
    /\ pc = "cmp_select"
    /\ IF choice = "Compact context" \/ choice = Undefined
       THEN /\ ret' = RetUndefined
            /\ last' = [LastOf("compact") EXCEPT !.choice = choice]
            /\ pc' = "idle" /\ frame' = Null
            /\ fx' = Append(fx, Notify("compact", <<"Compacting context">>, "info"))
       ELSE IF choice = "Continue without either"
       THEN /\ ret' = RetCancel
            /\ last' = [LastOf("compact") EXCEPT !.choice = choice]
            /\ pc' = "idle" /\ frame' = Null
            /\ UNCHANGED fx
       ELSE /\ fx' = Append(fx, Complete("compact"))
            /\ last' = [LastOf("compact") EXCEPT !.choice = choice, !.done = FALSE]
            /\ pc' = "cmp_gen"
            /\ UNCHANGED <<ret, frame>>
    /\ UNCHANGED <<store, hasUI, agentRunning, clock, registers, editorText, timers, owed, epoch>>

\* from the user's choice to the return, or to the await of generateHandoffPrompt
CompactChoice(choice) ==
    /\ pc = "cmp_select"
    /\ IF choice = "Compact context" \/ choice = Undefined
       THEN /\ ret' = RetUndefined
            /\ last' = [LastOf("compact") EXCEPT !.choice = choice]
            /\ pc' = "idle" /\ frame' = Null
            /\ UNCHANGED fx
       ELSE IF choice = "Continue without either"
       THEN /\ ret' = RetCancel
            /\ last' = [LastOf("compact") EXCEPT !.choice = choice]
            /\ pc' = "idle" /\ frame' = Null
            /\ UNCHANGED fx
       ELSE /\ fx' = Append(fx, Complete("compact"))
            /\ last' = [LastOf("compact") EXCEPT !.choice = choice, !.done = FALSE]
            /\ pc' = "cmp_gen"
            /\ UNCHANGED <<ret, frame>>
    /\ UNCHANGED <<store, hasUI, agentRunning, clock, registers, editorText, timers, owed, epoch>>

\* Mutant: handoffTimestamp is assigned before the summary outcome is examined.
CompactGenDoneEarlyTimestamp(resp, threw) ==
    /\ pc = "cmp_gen"
    /\ pc' = "idle" /\ frame' = Null
    /\ LET handoffResult == generateHandoffPrompt(resp)
           done == [LastOf("compact") EXCEPT !.choice = "Handoff to new session",
                                              !.gen = handoffResult.type,
                                              !.message = handoffResult.message,
                                              !.resp = resp, !.text = handoffResult.text]
       IN IF handoffResult.type = "null"
          THEN /\ threw = FALSE
               /\ fx' = Append(fx, Notify("compact", HandoffCancelledCompacting, "warning"))
               /\ ret' = RetUndefined
               /\ last' = done
               /\ UNCHANGED <<store, registers, editorText, owed, epoch>>
          ELSE IF handoffResult.type = "error"
          THEN /\ threw = FALSE
               /\ fx' = Append(fx, Notify("compact",
                                          HandoffFailedCompacting(handoffResult.message),
                                          "warning"))
               /\ ret' = RetUndefined
               /\ last' = done
               /\ handoffTimestamp' = Some(clock)
               /\ UNCHANGED <<store, pendingHandoff, pendingHandoffText, activeFileMarkers,
                              editorText, owed, epoch>>
          ELSE LET fileOps == buildFileOperations(frame[1].messages)
                   currentSessionFile == getSessionFile
                   prompt == wrapWithParentSession(assemble(handoffResult.text, fileOps),
                                                   currentSessionFile)
                   call == NewSession("compact", "sessionManager.newSession",
                                      currentSessionFile, threw, Some(clock))
               IN /\ last' = [done EXCEPT !.threw = threw]
                  /\ epoch' = "raw"
                  /\ IF threw
                     THEN /\ handoffTimestamp' = Null
                          /\ fx' = fx \o <<call, Notify("compact",
                                                        SwitchFailedCompacting("EACCES"),
                                                        "warning")>>
                          /\ ret' = RetUndefined
                          /\ UNCHANGED <<store, pendingHandoff, pendingHandoffText,
                                         activeFileMarkers, editorText, owed>>
                     ELSE /\ handoffTimestamp' = Some(clock)
                          /\ CreateSession(currentSessionFile)
                          /\ activeFileMarkers' = IF fileOps # Null THEN fileOps[1].expansions
                                                  ELSE activeFileMarkers
                          /\ editorText' = prompt
                          /\ fx' = fx \o <<call, SetEditorText("compact", prompt),
                                           Notify("compact", HandoffReady, "info")>>
                          /\ owed' = Installed(owed, prompt)
                          /\ ret' = RetCancel
                          /\ UNCHANGED <<persist, pendingHandoff, pendingHandoffText>>
    /\ UNCHANGED <<hasUI, agentRunning, clock, timers>>


\* from the result of generateHandoffPrompt to the return; the raw
\* newSession call may throw
CompactGenDone(resp, threw) ==
    /\ pc = "cmp_gen"
    /\ pc' = "idle" /\ frame' = Null
    /\ LET handoffResult == generateHandoffPrompt(resp)
           done == [LastOf("compact") EXCEPT !.choice = "Handoff to new session",
                                              !.gen = handoffResult.type,
                                              !.message = handoffResult.message,
                                              !.resp = resp, !.text = handoffResult.text]
       IN IF handoffResult.type = "null"
          THEN /\ threw = FALSE
               /\ fx' = Append(fx, Notify("compact", HandoffCancelledCompacting, "warning"))
               /\ ret' = RetUndefined
               /\ last' = done
               /\ UNCHANGED <<store, registers, editorText, owed, epoch>>
          ELSE IF handoffResult.type = "error"
          THEN /\ threw = FALSE
               /\ fx' = Append(fx, Notify("compact",
                                          HandoffFailedCompacting(handoffResult.message),
                                          "warning"))
               /\ ret' = RetUndefined
               /\ last' = done
               /\ UNCHANGED <<store, registers, editorText, owed, epoch>>
          ELSE LET fileOps == buildFileOperations(frame[1].messages)
                   currentSessionFile == getSessionFile
                   prompt == wrapWithParentSession(assemble(handoffResult.text, fileOps),
                                                   currentSessionFile)
                   call == NewSession("compact", "sessionManager.newSession",
                                      currentSessionFile, threw, Some(clock))
               IN /\ last' = [done EXCEPT !.threw = threw]
                  /\ epoch' = "raw"
                  /\ IF threw
                     THEN /\ handoffTimestamp' = Null
                          /\ fx' = fx \o <<call, Notify("compact",
                                                        SwitchFailedCompacting("EACCES"),
                                                        "warning")>>
                          /\ ret' = RetUndefined
                          /\ UNCHANGED <<store, pendingHandoff, pendingHandoffText,
                                         activeFileMarkers, editorText, owed>>
                     ELSE /\ handoffTimestamp' = Some(clock)
                          /\ CreateSession(currentSessionFile)
                          /\ activeFileMarkers' = IF fileOps # Null THEN fileOps[1].expansions
                                                  ELSE activeFileMarkers
                          /\ editorText' = prompt
                          /\ fx' = fx \o <<call, SetEditorText("compact", prompt),
                                           Notify("compact", HandoffReady, "info")>>
                          /\ owed' = Installed(owed, prompt)
                          /\ ret' = RetCancel
                          /\ UNCHANGED <<persist, pendingHandoff, pendingHandoffText>>
    /\ UNCHANGED <<hasUI, agentRunning, clock, timers>>


\* ------------------------------------------------------- /handoff command
\* the handler up to the await of generateHandoffPrompt
CommandStart(args, model, branch) ==
    /\ pc = "idle" /\ ~agentRunning /\ nSessions < MaxSessions
    /\ LET goal == Trim(args)
           conv == gatherConversation(branch)
           error == IF goal = <<>> THEN <<"Usage: /handoff <goal for new thread>">>
                    ELSE IF ~model THEN NoModelSelected
                    ELSE IF conv = Null THEN NoConversation
                    ELSE <<>>
       IN IF error # <<>>
          THEN /\ fx' = <<Notify("command", error, "error")>>
               /\ ret' = RetUndefined
               /\ last' = [LastOf("command") EXCEPT !.model = model, !.payload = args,
                                                     !.empty = (branch = <<>>)]
               /\ UNCHANGED <<pc, frame>>
          ELSE /\ fx' = <<Complete("command")>>
               /\ ret' = RetPending
               /\ last' = [LastOf("command") EXCEPT !.done = FALSE, !.model = model,
                                                     !.payload = args,
                                                     !.empty = (branch = <<>>)]
               /\ pc' = "cmd_gen"
               /\ frame' = Some([messages |-> conv[1]])
    /\ UNCHANGED <<store, hasUI, agentRunning, clock, registers, editorText, timers, owed, epoch>>

\* from the result of generateHandoffPrompt to the await of ctx.newSession
CommandGenDone(resp) ==
    /\ pc = "cmd_gen"
    /\ LET result == generateHandoffPrompt(resp)
           done == [LastOf("command") EXCEPT !.gen = result.type, !.message = result.message,
                                             !.resp = resp, !.text = result.text]
       IN IF result.type = "null"
          THEN /\ fx' = Append(fx, Notify("command", HandoffCancelled, "info"))
               /\ ret' = RetUndefined
               /\ last' = done
               /\ pc' = "idle" /\ frame' = Null
               /\ UNCHANGED pendingHandoffText
          ELSE IF result.type = "error"
          THEN /\ fx' = Append(fx, Notify("command", HandoffFailed(result.message), "error"))
               /\ ret' = RetUndefined
               /\ last' = done
               /\ pc' = "idle" /\ frame' = Null
               /\ UNCHANGED pendingHandoffText
          ELSE LET fileOps == buildFileOperations(frame[1].messages)
                   currentSessionFile == getSessionFile
                   prompt == wrapWithParentSession(assemble(result.text, fileOps),
                                                   currentSessionFile)
               IN /\ pendingHandoffText' =
                         IF currentSessionFile # Undefined
                         THEN MapSet(pendingHandoffText, currentSessionFile, prompt)
                         ELSE pendingHandoffText
                  /\ fx' = Append(fx, NewSession("command", "ctx.newSession",
                                                 currentSessionFile, FALSE,
                                                 handoffTimestamp))
                  /\ UNCHANGED ret
                  /\ last' = [done EXCEPT !.done = FALSE]
                  /\ pc' = "cmd_new"
                  /\ frame' = Some([currentSessionFile |-> currentSessionFile,
                                    prompt |-> prompt,
                                    pendingMarkers |-> IF fileOps = Null THEN Null
                                                       ELSE Some(fileOps[1].expansions)])
    /\ UNCHANGED <<store, hasUI, agentRunning, clock, pendingHandoff, handoffTimestamp,
                   activeFileMarkers, editorText, timers, owed, epoch>>

\* ctx.newSession creates the session and fires session_switch(reason = new)
CommandNewSwitch ==
    /\ pc = "cmd_new"
    /\ CreateSession(frame[1].currentSessionFile)
    /\ sessionSwitchHandler("new", fx,
                            owed \cup {[session |-> nSessions + 1, prompt |-> frame[1].prompt,
                                        via |-> "command"]})
    /\ pc' = "cmd_ret"
    /\ UNCHANGED <<persist, hasUI, agentRunning, clock, timers, frame, ret, last>>

\* Mutant: the command, once the new session is open, drops a handoff that
\* the tool left pending.
CommandNewDoneDropsPending ==
    /\ pc = "cmd_ret"
    /\ activeFileMarkers' = IF frame[1].pendingMarkers # Null THEN frame[1].pendingMarkers[1]
                            ELSE activeFileMarkers
    /\ pendingHandoff' = Null
    /\ ret' = RetUndefined
    /\ last' = [last EXCEPT !.done = TRUE]
    /\ pc' = "idle" /\ frame' = Null
    /\ UNCHANGED <<store, hasUI, agentRunning, clock, handoffTimestamp,
                   pendingHandoffText, editorText, timers, fx, owed, epoch>>

\* Mutant: the command stamps the handoff once the new session is open.
CommandNewDoneStamps ==
    /\ pc = "cmd_ret"
    /\ activeFileMarkers' = IF frame[1].pendingMarkers # Null THEN frame[1].pendingMarkers[1]
                            ELSE activeFileMarkers
    /\ handoffTimestamp' = Some(clock)
    /\ ret' = RetUndefined
    /\ last' = [last EXCEPT !.done = TRUE]
    /\ pc' = "idle" /\ frame' = Null
    /\ UNCHANGED <<store, hasUI, agentRunning, clock, pendingHandoff,
                   pendingHandoffText, editorText, timers, fx, owed, epoch>>

\* ctx.newSession resolved: the handler's last statement
CommandNewDone ==
    /\ pc = "cmd_ret"
    /\ activeFileMarkers' = IF frame[1].pendingMarkers # Null THEN frame[1].pendingMarkers[1]
                            ELSE activeFileMarkers
    /\ ret' = RetUndefined
    /\ last' = [last EXCEPT !.done = TRUE]
    /\ pc' = "idle" /\ frame' = Null
    /\ UNCHANGED <<store, hasUI, agentRunning, clock, pendingHandoff, handoffTimestamp,
                   pendingHandoffText, editorText, timers, fx, owed, epoch>>

\* Mutant: the cancel branch does not delete the entry it registered.
CommandNewCancelledKeepsEntry ==
    /\ pc = "cmd_new"
    /\ fx' = Append(fx, Notify("command", <<"New session cancelled.">>, "info"))
    /\ ret' = RetUndefined
    /\ last' = [last EXCEPT !.done = TRUE, !.choice = "cancelled"]
    /\ pc' = "idle" /\ frame' = Null
    /\ UNCHANGED <<store, hasUI, agentRunning, clock, registers, editorText, timers, owed,
                   epoch>>

\* ctx.newSession resolved with { cancelled: true }
CommandNewCancelled ==
    /\ pc = "cmd_new"
    /\ pendingHandoffText' =
           IF frame[1].currentSessionFile # Undefined
           THEN MapDelete(pendingHandoffText, frame[1].currentSessionFile)
           ELSE pendingHandoffText
    /\ fx' = Append(fx, Notify("command", <<"New session cancelled.">>, "info"))
    /\ ret' = RetUndefined
    /\ last' = [last EXCEPT !.done = TRUE, !.choice = "cancelled"]
    /\ pc' = "idle" /\ frame' = Null
    /\ UNCHANGED <<store, hasUI, agentRunning, clock, pendingHandoff, handoffTimestamp,
                   activeFileMarkers, editorText, timers, owed, epoch>>

\* ctx.newSession rejected: the exception leaves the handler
CommandNewThrow ==
    /\ pc = "cmd_new"
    /\ ret' = RetThrow
    /\ last' = [last EXCEPT !.done = TRUE, !.threw = TRUE]
    /\ pc' = "idle" /\ frame' = Null
    /\ UNCHANGED <<store, hasUI, agentRunning, clock, registers, editorText, timers, fx, owed, epoch>>

\* ------------------------------------------------------------------ host
\* The host starts an agent loop; no handler of the extension is suspended.
\* U+2014, which cannot be written inside a TLA+ string
EmDash == "<mdash>"
\* HANDOFF_SYSTEM_HINT, a line break first
HANDOFF_SYSTEM_HINT ==
    <<"",
      "## Handoff",
      "",
      "Use " \o Backquote \o "/handoff <goal>" \o Backquote
          \o " to transfer context to a new focused session.",
      "Handoffs are especially effective after planning " \o EmDash
          \o " clear the context and start a new session with the plan you just created.",
      "At high context usage, suggest a handoff rather than losing important context.">>

\* a + b on strings written as lines: the last line of a runs on into the
\* first line of b
Plus(a, b) ==
    IF a = <<>> THEN b
    ELSE IF b = <<>> THEN a
    ELSE SubSeq(a, 1, Len(a) - 1) \o <<a[Len(a)] \o b[1]>> \o Tail(b)

RetSystemPrompt(t) == [kind |-> "systemPrompt", systemPrompt |-> t]

SystemPrompts == {<<"base prompt">>, <<"YOU ARE AN AI ASSISTANT", "", "Rules:", "- be helpful">>}

\* Mutant: the hint takes the place of the system prompt.
AgentStartHintOnly(systemPrompt) ==
    /\ pc = "idle" /\ ~agentRunning
    /\ agentRunning' = TRUE
    /\ fx' = <<>>
    /\ ret' = RetSystemPrompt(HANDOFF_SYSTEM_HINT)
    /\ last' = [LastOf("agent_start") EXCEPT !.text = systemPrompt]
    /\ UNCHANGED <<store, hasUI, clock, registers, editorText, timers, pc, frame, owed, epoch>>

\* the host starts an agent loop and before_agent_start answers
AgentStart(systemPrompt) ==
    /\ pc = "idle" /\ ~agentRunning
    /\ agentRunning' = TRUE
    /\ fx' = <<>>
    /\ ret' = RetSystemPrompt(Plus(systemPrompt, HANDOFF_SYSTEM_HINT))
    /\ last' = [LastOf("agent_start") EXCEPT !.text = systemPrompt]
    /\ UNCHANGED <<store, hasUI, clock, registers, editorText, timers, pc, frame, owed, epoch>>

\* time passes; between handlers, what the last handler did is forgotten
Tick ==
    /\ clock < MaxClock
    /\ clock' = clock + 1
    /\ IF pc = "idle"
       THEN fx' = <<>> /\ ret' = RetUndefined /\ last' = LastOf("tick")
       ELSE UNCHANGED <<fx, ret, last>>
    /\ UNCHANGED <<store, hasUI, agentRunning, registers, editorText, timers, pc, frame, owed, epoch>>

\* what the user submits: the editor as it is, a text of their own, or a text
\* of their own around one marker
InputTexts == {editorText, <<"hello">>, <<"see", "[+1 read filename]">>}
Images == {<<"screenshot.png">>}

Next ==
    \/ \E args \in Args, model \in BOOLEAN, branch \in Conversations :
           CommandStart(args, model, branch)
    \/ \E resp \in Responses : CommandGenDone(resp)
    \/ CommandNewSwitch
    \/ CommandNewDone
    \/ CommandNewCancelled
    \/ CommandNewThrow
    \/ \E model \in BOOLEAN, branch \in Conversations : ToolStart(model, branch)
    \/ \E resp \in Responses : ToolGenDone(resp)
    \/ \E threw \in BOOLEAN : AgentEnd(threw)
    \/ TimerFire
    \/ \E model \in BOOLEAN, messages \in Conversations : CompactStart(model, messages)
    \/ \E choice \in Choices : CompactChoice(choice)
    \/ \E resp \in Responses, threw \in BOOLEAN : CompactGenDone(resp, threw)
    \/ \E reason \in {"new", "resume"}, target \in Sessions : SessionSwitchEvent(reason, target)
    \/ \E parent \in Sessions : SessionSwitchChild(parent)
    \/ \E messages \in CtxSingles : Context(messages)
    \/ \E text \in InputTexts, images \in Images : Input(text, images)
    \/ \E systemPrompt \in SystemPrompts : AgentStart(systemPrompt)

Spec == Init /\ [][Next]_vars

\* ------------------------------------------- a handoff held between loops
\* The agent loop is aborted while execute() awaits the summary: agent_end
\* finds nothing pending and returns, and execute(), which does not look at
\* its abort signal, goes on to arm pendingHandoff with no loop running.
AgentAbort ==
    /\ pc = "tool_gen" /\ agentRunning
    /\ agentRunning' = FALSE
    /\ pendingHandoff = Null
    /\ UNCHANGED <<store, hasUI, clock, registers, editorText, timers, pc, frame, fx, ret,
                   last, owed, epoch>>

\* one summary that succeeds and one that fails
HeldResponses ==
    {Response("stop", Undefined, <<TextContent(t)>>) : t \in Summaries}
    \cup {Response("error", Undefined, <<>>)}

HeldNext ==
    \/ AgentAbort
    \/ \E branch \in {ConvPlain, ConvOps} : CommandStart(<<"g">>, TRUE, branch)
    \/ \E resp \in HeldResponses : CommandGenDone(resp)
    \/ CommandNewSwitch
    \/ CommandNewDone
    \/ CommandNewCancelled
    \/ CommandNewThrow
    \/ \E branch \in {ConvPlain, ConvOps} : ToolStart(TRUE, branch)
    \/ \E resp \in HeldResponses : ToolGenDone(resp)
    \/ \E threw \in BOOLEAN : AgentEnd(threw)
    \/ TimerFire
    \/ \E messages \in {ConvPlain, ConvOps} : CompactStart(TRUE, messages)
    \/ \E choice \in Choices : CompactChoice(choice)
    \/ \E resp \in HeldResponses, threw \in BOOLEAN : CompactGenDone(resp, threw)
    \/ \E reason \in {"new", "resume"}, target \in Sessions : SessionSwitchEvent(reason, target)
    \/ \E parent \in Sessions : SessionSwitchChild(parent)
    \/ \E messages \in CtxSingles : Context(messages)
    \/ \E text \in InputTexts, images \in Images : Input(text, images)
    \/ AgentStart(<<"base prompt">>)

HeldSpec == Init /\ [][HeldNext]_vars


\* The context filter over longer message lists, with the handlers that set
\* and clear handoffTimestamp.
FilterNext ==
    \/ \E model \in BOOLEAN, messages \in Conversations : CompactStart(model, messages)
    \/ \E choice \in Choices : CompactChoice(choice)
    \/ \E resp \in Responses, threw \in BOOLEAN : CompactGenDone(resp, threw)
    \/ \E reason \in {"new", "resume"}, target \in Sessions : SessionSwitchEvent(reason, target)
    \/ \E messages \in CtxMessages(MaxFilterLen) : Context(messages)
    \/ \E threw \in BOOLEAN : AgentEnd(threw)
    \/ \E systemPrompt \in SystemPrompts : AgentStart(systemPrompt)
    \/ Tick

FilterSpec == Init /\ [][FilterNext]_vars

\* The summary generator over responses of every shape, with the handlers
\* that call it and those that finish what they started.
GenNext ==
    \/ \E args \in Args, model \in BOOLEAN, branch \in Conversations :
           CommandStart(args, model, branch)
    \/ \E resp \in GenResponses : CommandGenDone(resp)
    \/ CommandNewSwitch
    \/ CommandNewDone
    \/ CommandNewCancelled
    \/ CommandNewThrow
    \/ \E model \in BOOLEAN, branch \in Conversations : ToolStart(model, branch)
    \/ \E resp \in GenResponses : ToolGenDone(resp)
    \/ \E threw \in BOOLEAN : AgentEnd(threw)
    \/ TimerFire
    \/ \E model \in BOOLEAN, messages \in Conversations : CompactStart(model, messages)
    \/ \E choice \in Choices : CompactChoice(choice)
    \/ \E resp \in GenResponses, threw \in BOOLEAN : CompactGenDone(resp, threw)
    \/ \E systemPrompt \in SystemPrompts : AgentStart(systemPrompt)

GenSpec == Init /\ [][GenNext]_vars


\* ------------------------------------------------- file operations alone
\* buildFileOperations and expandFileMarkers over messages of every shape:
\* the blocks of one message after the user's, which is an assistant's or
\* not, with list content or not.  A path may be any string, one that reads
\* like a marker included.
MaxCalls == 2

OpsPaths == {"[+1 modified filename]", "[+1 read filename]", "src/auth.ts", "src/db.ts"}
OpsBlocks ==
    {ToolCall(name, path) : name \in {"read", "write", "edit", "bash"}, path \in OpsPaths}
    \cup {ToolCall("read", Undefined), ToolCall("", "src/auth.ts"), TextBlock,
          [type |-> "toolCall", name |-> "edit", hasArgs |-> FALSE, path |-> Undefined]}
OpsContents == UNION {[1..n -> OpsBlocks] : n \in 0..MaxCalls}
OpsMessages ==
    {<<UserMsg, [role |-> role, isArray |-> isArray, content |-> blocks]>> :
        role \in {"assistant", "toolResult"}, isArray \in BOOLEAN, blocks \in OpsContents}

OpsInit ==
    /\ persist = TRUE
    /\ hasUI = TRUE
    /\ current = 1
    /\ nSessions = 1
    /\ parentOf = [i \in Sessions |-> Undefined]
    /\ agentRunning = FALSE
    /\ clock = 0
    /\ pendingHandoff = Null
    /\ handoffTimestamp = Null
    /\ pendingHandoffText = EmptyMap
    /\ activeFileMarkers = <<>>
    /\ editorText = <<>>
    /\ timers = <<>>
    /\ pc = "ops_build"
    /\ frame \in {Some([messages |-> messages, fileOps |-> Null]) : messages \in OpsMessages}
    /\ fx = <<>>
    /\ ret = RetUndefined
    /\ last = LastOf("init")
    /\ owed = {}
    /\ epoch = "start"

\* const fileOps = buildFileOperations(messages), and the store filled from it
OpsBuild ==
    /\ pc = "ops_build"
    /\ LET fileOps == buildFileOperations(frame[1].messages)
       IN /\ frame' = Some([frame[1] EXCEPT !.fileOps = fileOps])
          /\ activeFileMarkers' = IF fileOps = Null THEN <<>> ELSE fileOps[1].expansions
    /\ pc' = "ops_expand"
    /\ UNCHANGED <<aside, editorText, ret>>

\* the texts a store is applied to: the marker lines, a prompt ending in them,
\* a text with none
OpsTexts ==
    LET markers == IF frame[1].fileOps = Null THEN <<>> ELSE frame[1].fileOps[1].markers
    IN {markers, <<"## Goal", "Implement OAuth", "">> \o markers, <<"hello">>}

\* expandFileMarkers(text, store)
OpsExpand(text) ==
    /\ pc = "ops_expand"
    /\ editorText' = text
    /\ ret' = RetTransform(expandFileMarkers(text, activeFileMarkers), <<>>)
    /\ pc' = "ops_again"
    /\ UNCHANGED <<aside, activeFileMarkers, frame>>

\* expandFileMarkers(expanded, store), on what the first call returned
OpsExpandAgain ==
    /\ pc = "ops_again"
    /\ editorText' = ret.text
    /\ ret' = RetTransform(expandFileMarkers(ret.text, activeFileMarkers), <<>>)
    /\ pc' = "ops_done"
    /\ UNCHANGED <<aside, activeFileMarkers, frame>>

OpsNext ==
    \/ OpsBuild
    \/ \E text \in OpsTexts : OpsExpand(text)
    \/ OpsExpandAgain

OpsSpec == OpsInit /\ [][OpsNext]_vars


\* ------------------------------------------------------- ancestry alone
\* getSessionAncestry, one turn of its loop at a time, over every disk of
\* session files: a header names any file as its parent, itself or a file
\* that is not there included, or there is no header; then
\* wrapWithParentSession around a prompt.
RetAncestry(a) == [kind |-> "ancestry", list |-> a]

DiskHeaders == {Undefined} \cup {FilePath(j) : j \in Sessions} \cup HeaderFaults

AncInit ==
    /\ persist = TRUE
    /\ hasUI = TRUE
    /\ current = 1
    /\ nSessions \in Sessions
    /\ parentOf \in [Sessions -> DiskHeaders]
    /\ agentRunning = FALSE
    /\ clock = 0
    /\ pendingHandoff = Null
    /\ handoffTimestamp = Null
    /\ pendingHandoffText = EmptyMap
    /\ activeFileMarkers = <<>>
    /\ editorText = <<>>
    /\ timers = <<>>
    /\ pc = "anc_loop"
    /\ frame \in {Some([parentSessionFile |-> FilePath(j), current |-> FilePath(j),
                        visited |-> {}, ancestry |-> <<>>]) : j \in Sessions}
    /\ fx = <<>>
    /\ ret = RetUndefined
    /\ last = LastOf("init")
    /\ owed = {}
    /\ epoch = "start"

\* Mutant: a file is forgotten as soon as the walk has left it (the walk is
\* cut off at a fixed length).
AncStepForgets ==
    /\ pc = "anc_loop"
    /\ frame[1].current # Undefined /\ frame[1].current \notin frame[1].visited
    /\ Len(frame[1].ancestry) < MaxSessions + 2
    /\ LET header == getSessionHeader(frame[1].current)
       IN frame' = Some([frame[1] EXCEPT
                            !.visited = {frame[1].current},
                            !.ancestry = Append(@, frame[1].current),
                            !.current = IF header = Null THEN Undefined
                                        ELSE header[1].parentSession])
    /\ UNCHANGED <<aside, activeFileMarkers, editorText, pc, ret>>

\* one turn of `while (current && !visited.has(current))`
AncStep ==
    /\ pc = "anc_loop"
    /\ frame[1].current # Undefined /\ frame[1].current \notin frame[1].visited
    /\ LET header == getSessionHeader(frame[1].current)
       IN frame' = Some([frame[1] EXCEPT
                            !.visited = @ \cup {frame[1].current},
                            !.ancestry = Append(@, frame[1].current),
                            !.current = IF header = Null THEN Undefined
                                        ELSE header[1].parentSession])
    /\ UNCHANGED <<aside, activeFileMarkers, editorText, pc, ret>>

\* the loop's condition fails: return ancestry
AncReturn ==
    /\ pc = "anc_loop"
    /\ frame[1].current = Undefined \/ frame[1].current \in frame[1].visited
    /\ ret' = RetAncestry(frame[1].ancestry)
    /\ pc' = "anc_done"
    /\ UNCHANGED <<aside, activeFileMarkers, editorText, frame>>

WrapPrompts == {<<"## Goal", "Continue work">>, <<>>}

\* wrapWithParentSession(prompt, parentSessionFile) for the file the walk
\* started from, or for no file
AncWrap(prompt, parentSessionFile) ==
    /\ pc = "anc_done"
    /\ editorText' = prompt
    /\ frame' = Some([frame[1] EXCEPT !.parentSessionFile = parentSessionFile])
    /\ ret' = RetContent(wrapWithParentSession(prompt, parentSessionFile))
    /\ pc' = "anc_wrapped"
    /\ UNCHANGED <<aside, activeFileMarkers>>

AncNext ==
    \/ AncStep
    \/ AncReturn
    \/ \E prompt \in WrapPrompts, parentSessionFile \in {frame[1].parentSessionFile, Undefined} :
           AncWrap(prompt, parentSessionFile)

AncSpec == AncInit /\ [][AncNext]_vars

\* reading a file and testing the loop's condition both finish
AncLiveSpec == AncInit /\ [][AncNext]_vars /\ WF_vars(AncStep) /\ WF_vars(AncReturn)


\* ------------------------------------------------------ session names
\* goalToSessionName over goals written as sequences of characters: short
\* ones, and the same repeated until they pass the cut.
MaxGoalLen == 3
SliceEnd == 50

Chars == {"A", "b", "2", " ", "\t", "-", "#"}
Whitespace == {" ", "\t"}
\* String.prototype.toLowerCase, a character at a time
LowerOf(c) == IF c = "A" THEN "a" ELSE c
\* the class [a-z0-9\s-]
InClass(c) == c \in {"a", "b", "2", "-"} \cup Whitespace

toLowerCase(s) == [i \in 1..Len(s) |-> LowerOf(s[i])]
\* .replace(/[^a-z0-9\s-]/g, "")
removeOutsideClass(s) == SelectSeq(s, InClass)

RECURSIVE trimStartChars(_)
trimStartChars(s) ==
    IF s # <<>> /\ Head(s) \in Whitespace THEN trimStartChars(Tail(s)) ELSE s
RECURSIVE trimEndChars(_)
trimEndChars(s) ==
    IF s # <<>> /\ s[Len(s)] \in Whitespace THEN trimEndChars(SubSeq(s, 1, Len(s) - 1)) ELSE s
trimChars(s) == trimEndChars(trimStartChars(s))

\* Mutant: every whitespace character becomes a hyphen of its own.
hyphenateEach(s) == [i \in 1..Len(s) |-> IF s[i] \in Whitespace THEN "-" ELSE s[i]]

\* .replace(/\s+/g, "-")
RECURSIVE hyphenateRuns(_)
hyphenateRuns(s) ==
    IF s = <<>> THEN <<>>
    ELSE IF Head(s) \in Whitespace
         THEN <<"-">> \o hyphenateRuns(trimStartChars(s))
         ELSE <<Head(s)>> \o hyphenateRuns(Tail(s))

\* .slice(0, 50)
slice(s, end) == SubSeq(s, 1, IF Len(s) < end THEN Len(s) ELSE end)

goalToSessionName(goal) ==
    slice(hyphenateRuns(trimChars(removeOutsideClass(toLowerCase(goal)))), SliceEnd)

RECURSIVE repeat(_, _)
repeat(s, n) == IF n = 0 THEN <<>> ELSE s \o repeat(s, n - 1)

Goals == {repeat(base, n) : base \in UNION {[1..k -> Chars] : k \in 0..MaxGoalLen}, n \in {1, 20}}

NameInit ==
    /\ persist = TRUE
    /\ hasUI = TRUE
    /\ current = 1
    /\ nSessions = 1
    /\ parentOf = [i \in Sessions |-> Undefined]
    /\ agentRunning = FALSE
    /\ clock = 0
    /\ pendingHandoff = Null
    /\ handoffTimestamp = Null
    /\ pendingHandoffText = EmptyMap
    /\ activeFileMarkers = <<>>
    /\ editorText = <<>>
    /\ timers = <<>>
    /\ pc = "name_call"
    /\ frame \in {Some([goal |-> goal]) : goal \in Goals}
    /\ fx = <<>>
    /\ ret = RetUndefined
    /\ last = LastOf("init")
    /\ owed = {}
    /\ epoch = "start"

\* return goalToSessionName(goal)
NameCall ==
    /\ pc = "name_call"
    /\ ret' = RetContent(goalToSessionName(frame[1].goal))
    /\ pc' = "name_done"
    /\ UNCHANGED <<aside, activeFileMarkers, editorText, frame>>

NameNext == NameCall

NameSpec == NameInit /\ [][NameNext]_vars


\* ================================================================ claims
CallsOf(log, by, op) == {i \in 1..Len(log) : log[i].by = by /\ log[i].op = op}
NewSessionCalls(log) == {i \in 1..Len(log) : log[i].op = "newSession"}
\* the calls a step added to fx
Added(old, new) ==
    IF Len(new) >= Len(old) /\ SubSeq(new, 1, Len(old)) = old
    THEN SubSeq(new, Len(old) + 1, Len(new)) ELSE new
Range(f) == {f[i] : i \in DOMAIN f}
sessionStore == <<current, nSessions, parentOf>>

C2_AgentEndDrainsOnce ==
    [][(agentRunning /\ ~agentRunning')
         => IF pendingHandoff # Null
            THEN /\ pendingHandoff' = Null
                 /\ Len(fx') = 1
                 /\ fx'[1].op = "newSession"
                 /\ fx'[1].api = "sessionManager.newSession"
                 /\ fx'[1].parentSession = pendingHandoff[1].parentSession
            ELSE /\ fx' = <<>>
                 /\ UNCHANGED <<registers, sessionStore, timers, editorText>>
      ]_vars

C2_Witness ==
    /\ last.h = "agent_end" /\ last.armed /\ ~last.threw
    /\ pendingHandoff = Null
    /\ Len(fx) = 1 /\ fx[1].parentSession = "/S/1.jsonl"
    /\ current = 2

\* C3: with a UI, once no handler is suspended and no deferred install is
\* outstanding, every handoff whose new session was created has had its
\* prompt put in the editor.
C3_EditorAlwaysInstalled ==
    (hasUI /\ pc = "idle" /\ timers = <<>>) => owed = {}

RECURSIVE AtOrAfter(_, _)
AtOrAfter(messages, t) ==
    IF messages = <<>> THEN <<>>
    ELSE (IF Head(messages).timestamp < t THEN <<>> ELSE <<Head(messages)>>)
         \o AtOrAfter(Tail(messages), t)

\* C5: the context handler returns the messages at or after handoffTimestamp
\* in their order when there is one, and nothing otherwise; it returns
\* nothing when handoffTimestamp is null; it never returns a message older
\* than handoffTimestamp nor an empty list.
C5_ContextFilter ==
    last.h = "context" =>
        IF last.T = Null THEN ret = RetUndefined
        ELSE LET kept == AtOrAfter(last.payload, last.T[1])
             IN /\ (kept # <<>> => ret = RetMessages(kept))
                /\ (kept = <<>> => ret = RetUndefined)
                /\ ret.kind = "messages"
                     => /\ ret.messages # <<>>
                        /\ \A i \in 1..Len(ret.messages) :
                               ret.messages[i].timestamp >= last.T[1]

C5_Witness ==
    /\ last.h = "context" /\ last.T = Some(1)
    /\ last.payload = <<[timestamp |-> 1], [timestamp |-> 0]>>
    /\ ret = RetMessages(<<[timestamp |-> 1]>>)

\* C6: every session_switch event leaves handoffTimestamp null, and from a
\* session_switch event to the next raw newSession call handoffTimestamp
\* stays null and every context event passes through.
C6_SwitchClearsFilter ==
    epoch = "clean" =>
        /\ handoffTimestamp = Null
        /\ last.h = "context" => ret = RetUndefined

C6_Witness ==
    /\ epoch = "clean" /\ last.h = "context" /\ last.payload = <<[timestamp |-> 0]>>
    /\ editorText # <<>>
    /\ \E i \in 1..nSessions : parentOf[i] # Undefined

\* C7: when a raw newSession call has thrown, handoffTimestamp is null once
\* the handler that made the call has finished.
C7_RawThrowClearsTimestamp ==
    (last.h \in {"agent_end", "compact"} /\ last.done /\ last.threw)
        => handoffTimestamp = Null

\* C8: session_before_compact returns { cancel: true } exactly when the user
\* chose "Continue without either", or chose the handoff and both the
\* summary and the raw newSession call succeeded; otherwise undefined.
C8_CompactReturn ==
    (last.h = "compact" /\ last.done) =>
        /\ ret \in {RetCancel, RetUndefined}
        /\ ret = RetCancel <=>
               \/ last.choice = "Continue without either"
               \/ /\ last.choice = "Handoff to new session"
                  /\ last.gen = "prompt" /\ ~last.threw

C8_Witness ==
    /\ last.h = "compact" /\ last.done /\ ret = RetCancel
    /\ last.choice = "Handoff to new session"

\* C9: when the user chooses "Compact context" or dismisses the dialog, the
\* hook returns undefined and has, from its start, emitted no notification,
\* made no model call and no newSession call and changed no register.
C9_CompactContextIsInert ==
    [][/\ (pc = "idle" /\ pc' = "cmp_select")
            => /\ UNCHANGED <<registers, sessionStore>>
               /\ fx' = <<>>
       /\ (pc = "cmp_select" /\ pc' = "idle"
           /\ last'.choice \in {"Compact context", Undefined})
            => /\ ret' = RetUndefined
               /\ UNCHANGED <<registers, sessionStore>>
               /\ \A i \in 1..Len(fx') : fx'[i].by # "compact"
      ]_vars

C9_Witness ==
    /\ last.h = "compact" /\ last.done /\ last.choice = Undefined
    /\ ret = RetUndefined /\ activeFileMarkers # <<>>

\* C10: when the user chose the handoff and the summary is cancelled or
\* fails, the hook emits one warning that mentions compacting instead (with
\* the error message when it failed), returns undefined, calls newSession
\* and setEditorText never, and leaves the session, handoffTimestamp and
\* the marker store as they were.
C10_SummaryFailureFallsBack ==
    [][(pc = "cmp_gen" /\ pc' = "idle" /\ last'.gen \in {"null", "error"})
         => LET added == Added(fx, fx')
            IN /\ Len(added) = 1
               /\ added[1].op = "notify" /\ added[1].level = "warning"
               /\ CompactingInstead \in Range(added[1].text)
               /\ last'.gen = "error" => last'.message \in Range(added[1].text)
               /\ ret' = RetUndefined
               /\ CallsOf(fx', "compact", "newSession") = {}
               /\ CallsOf(fx', "compact", "setEditorText") = {}
               /\ UNCHANGED <<sessionStore, editorText, handoffTimestamp, activeFileMarkers>>
      ]_vars

C10_Witness ==
    /\ last.h = "compact" /\ last.done /\ last.gen = "error"
    /\ last.message = "context_length_exceeded"
    /\ ret = RetUndefined /\ Len(fx) = 2

C12_CancelledNewSession ==
    [][/\ (pc = "cmd_new" /\ pc' = "idle" /\ last'.choice = "cancelled")
            => /\ frame[1].currentSessionFile \notin DOMAIN pendingHandoffText'
               /\ Added(fx, fx') = <<Notify("command", <<"New session cancelled.">>, "info")>>
               /\ \A i \in 1..Len(fx') :
                      fx'[i].op = "setEditorText" => fx'[i].by = "timer"
               /\ ret' = RetUndefined
               /\ UNCHANGED <<activeFileMarkers, editorText, sessionStore, pendingHandoff>>
       /\ (pc' \in {"cmd_gen", "cmd_new"} /\ pc' # pc)
            => UNCHANGED <<activeFileMarkers, editorText, sessionStore, pendingHandoff>>
      ]_vars

\* a cancelled handoff from a session file: the entry registered under it is gone
C12_Witness ==
    /\ last.h = "command" /\ last.done /\ last.choice = "cancelled"
    /\ persist /\ pendingHandoffText = EmptyMap
    /\ activeFileMarkers = <<>> /\ editorText = <<>> /\ nSessions = 1
    /\ Len(fx) = 3 /\ fx[2].op = "newSession" /\ fx[2].parentSession = "/S/1.jsonl"
    /\ fx[3].text = <<"New session cancelled.">>

\* the summary, and the markers after an empty line when there are any
Bodies ==
    {t \o (IF buildFileOperations(c) = Null THEN <<>>
           ELSE <<"">> \o buildFileOperations(c)[1].markers) :
         t \in Summaries, c \in Conversations \ {ConvEmpty}}

HeaderLines ==
    {SkillDirective, "**Ancestor sessions:**"}
        \cup {ParentLine(f) : f \in {FilePath(i) : i \in Sessions} \cup {Undefined}}

\* C13: when getSessionFile() answers no file, the prompt a handoff builds is
\* the summary plus markers, with no skill directive and no parent-session
\* line; nothing is registered in pendingHandoffText; and the newSession call
\* is made all the same, with parentSession undefined.  Command, tool with
\* its agent_end, and compact hook.
C13_NoParent ==
    [][~persist =>
        /\ (pc = "cmd_gen" /\ pc' = "cmd_new")
             => /\ frame'[1].prompt \in Bodies
                /\ Range(frame'[1].prompt) \cap HeaderLines = {}
                /\ UNCHANGED pendingHandoffText
                /\ Added(fx, fx') = <<[op |-> "newSession", by |-> "command",
                                        api |-> "ctx.newSession",
                                        parentSession |-> Undefined,
                                        sessionFile |-> Undefined, threw |-> FALSE,
                                        stamp |-> handoffTimestamp]>>
        /\ (pc = "tool_gen" /\ pc' = "idle" /\ last'.gen = "prompt")
             => /\ pendingHandoff'[1].prompt \in Bodies
                /\ Range(pendingHandoff'[1].prompt) \cap HeaderLines = {}
                /\ pendingHandoff'[1].parentSession = Undefined
                /\ UNCHANGED pendingHandoffText
        /\ (agentRunning /\ ~agentRunning' /\ pendingHandoff # Null)
             => /\ Len(fx') = 1 /\ fx'[1].op = "newSession"
                /\ fx'[1].parentSession = Undefined
                /\ ~last'.threw => /\ parentOf'[current'] = Undefined
                                   /\ timers'[Len(timers')].prompt \in Bodies
                /\ UNCHANGED pendingHandoffText
        /\ (pc = "cmp_gen" /\ pc' = "idle" /\ last'.gen = "prompt")
             => LET added == Added(fx, fx')
                IN /\ added[1].op = "newSession" /\ added[1].parentSession = Undefined
                   /\ ~last'.threw => /\ editorText' \in Bodies
                                      /\ Range(editorText') \cap HeaderLines = {}
                                      /\ parentOf'[current'] = Undefined
                   /\ UNCHANGED pendingHandoffText
      ]_vars

\* the command has called ctx.newSession without a parent, its prompt being
\* the summary followed by the markers
C13_Witness ==
    /\ ~persist /\ pc = "cmd_new"
    /\ frame[1].currentSessionFile = Undefined
    /\ Len(frame[1].prompt) = 5 /\ frame[1].prompt[1] = "## Goal"
    /\ pendingHandoffText = EmptyMap
    /\ fx[Len(fx)].op = "newSession" /\ fx[Len(fx)].parentSession = Undefined

\* empty or nothing but spaces
Blank(s) == \A i \in 1..Len(s) : s[i] = " "

\* C14: when the branch yields no messages, the command and the tool return
\* at once: no model call, no newSession call, no register (pendingHandoff,
\* marker store) and no session changed.  The command emits one error-level
\* notification and the tool returns a text; when the checks that come first
\* pass (goal and model; UI and model) both texts are "No conversation to
\* hand off.".
C14_EmptyBranchAborts ==
    [][(pc = "idle" /\ last'.h \in {"command", "tool"} /\ last'.empty /\ last' # last)
         => /\ pc' = "idle"
            /\ UNCHANGED <<registers, sessionStore, editorText, timers>>
            /\ \A i \in 1..Len(fx') : fx'[i].op \notin {"complete", "newSession"}
            /\ last'.h = "command"
                 => /\ Len(fx') = 1
                    /\ fx'[1].op = "notify" /\ fx'[1].level = "error"
                    /\ ret' = RetUndefined
                    /\ (~Blank(last'.payload) /\ last'.model)
                         => fx'[1].text = <<"No conversation to hand off.">>
            /\ last'.h = "tool"
                 => /\ fx' = <<>>
                    /\ ret'.kind = "content"
                    /\ (hasUI /\ last'.model)
                         => ret'.text = <<"No conversation to hand off.">>
      ]_vars

\* the command refused an empty branch while markers of an earlier handoff
\* were active
C14_Witness ==
    /\ last.h = "command" /\ last.empty
    /\ fx = <<Notify("command", <<"No conversation to hand off.">>, "error")>>
    /\ activeFileMarkers # <<>> /\ pendingHandoff = Null /\ pc = "idle"

\* C15: a /handoff whose goal is empty or only spaces, or that has no model,
\* emits one error-level notification (the usage line; "No model selected."
\* when the goal is there) and returns: no model call, no newSession call,
\* no register and no session changed.  A handoff tool call without a model
\* returns a text the same way, "No model selected." when there is a UI.
C15_InvalidInputReturns ==
    [][/\ (pc = "idle" /\ last'.h = "command" /\ last' # last
           /\ (Blank(last'.payload) \/ ~last'.model))
            => /\ pc' = "idle"
               /\ fx' = <<Notify("command",
                                  IF Blank(last'.payload)
                                  THEN <<"Usage: /handoff <goal for new thread>">>
                                  ELSE <<"No model selected.">>,
                                  "error")>>
               /\ ret' = RetUndefined
               /\ UNCHANGED <<registers, sessionStore, editorText, timers>>
       /\ (pc = "idle" /\ last'.h = "tool" /\ last' # last /\ ~last'.model)
            => /\ pc' = "idle"
               /\ fx' = <<>>
               /\ ret'.kind = "content"
               /\ hasUI => ret'.text = <<"No model selected.">>
               /\ UNCHANGED <<registers, sessionStore, editorText, timers>>
      ]_vars

\* a goal of spaces only was refused with the usage line
C15_Witness ==
    /\ last.h = "command" /\ last.payload = <<" ", " ">> /\ last.model /\ ~last.empty
    /\ fx = <<Notify("command", <<"Usage: /handoff <goal for new thread>">>, "error")>>
    /\ pc = "idle" /\ ret = RetUndefined

\* C16: without a UI no handler calls the model or creates a session; the
\* command notifies an error, the tool returns "Handoff requires interactive
\* mode." and the compact hook returns undefined without opening the dialog.
C16_NoUIRefused ==
    ~hasUI =>
        /\ pc = "idle"
        /\ nSessions = 1
        /\ \A i \in 1..Len(fx) : fx[i].op \notin {"complete", "newSession"}
        /\ last.h = "command"
             => Len(fx) = 1 /\ fx[1].op = "notify" /\ fx[1].level = "error"
        /\ last.h = "tool" => ret = RetContent(<<"Handoff requires interactive mode.">>)
        /\ last.h = "compact" => ret = RetUndefined /\ fx = <<>>

FailureMessages ==
    {"context_length_exceeded", "LLM request failed", "LLM returned empty response",
     "fetch failed"}

RECURSIVE TextLines(_)
TextLines(content) ==
    IF content = <<>> THEN <<>>
    ELSE LET init == SubSeq(content, 1, Len(content) - 1)
             b == content[Len(content)]
         IN TextLines(init) \o (IF b.type = "text" THEN b.text ELSE <<>>)

White(l) == l = "" \/ l = " "

\* t is `lines` without the white lines at its two ends
TrimmedOf(t, lines) ==
    /\ t # <<>> => ~White(t[1]) /\ ~White(t[Len(t)])
    /\ \E i \in 1..(Len(lines) + 1) :
          /\ i + Len(t) - 1 <= Len(lines)
          /\ SubSeq(lines, i, i + Len(t) - 1) = t
          /\ \A k \in 1..Len(lines) : (k < i \/ k > i + Len(t) - 1) => White(lines[k])

\* C18: whatever the model call ends with, the generator's outcome is null
\* exactly when the loader was aborted or stopReason is aborted; an error
\* exactly when the call threw (the exception's message), stopReason is error
\* (errorMessage when it is a string, else "LLM request failed"), or the text
\* blocks joined and trimmed are empty ("LLM returned empty response"); and
\* otherwise a prompt whose text is that joined and trimmed text, never empty.
\* While a handler waits for the generator, and when it gets null or an error
\* from it, no register changes.
C18_ThreeOutcomes ==
    [][/\ last'.gen # ""
            => LET r == last'.resp
                   aborted == r.how = "abort" \/ (r.how = "response" /\ r.stopReason = "aborted")
                   threw == r.how = "throw"
                   failed == r.how = "response" /\ r.stopReason = "error"
                   answered == r.how = "response" /\ r.stopReason \notin {"aborted", "error"}
                   lines == TextLines(r.content)
                   white == \A k \in 1..Len(lines) : White(lines[k])
               IN /\ aborted \/ threw \/ failed \/ answered
                  /\ last'.gen \in {"null", "error", "prompt"}
                  /\ last'.gen = "null" <=> aborted
                  /\ last'.gen = "error" <=> (threw \/ failed \/ (answered /\ white))
                  /\ threw => last'.message = r.message
                  /\ failed => last'.message = IF r.errorMessage # Undefined
                                               THEN r.errorMessage ELSE "LLM request failed"
                  /\ (answered /\ white) => last'.message = "LLM returned empty response"
                  /\ last'.gen = "prompt"
                       => /\ last'.text # <<>>
                          /\ TrimmedOf(last'.text, lines)
                  /\ last'.gen # "prompt" => last'.text = <<>>
       /\ (pc' \in {"cmd_gen", "tool_gen", "cmp_gen"}
           \/ (pc \in {"cmd_gen", "tool_gen", "cmp_gen"} /\ last'.gen \in {"null", "error"}))
            => UNCHANGED registers
      ]_vars

\* a prompt from a thinking block and a text block with white lines at both ends
C18_Witness ==
    /\ last.gen = "prompt"
    /\ last.resp.content = <<ThinkingContent,
                             TextContent(<<"", "## Goal", "Implement OAuth", " ">>)>>
    /\ last.text = <<"## Goal", "Implement OAuth">>

\* C19: an input whose text holds a stored marker is answered with a
\* transform carrying the event's images and empties the marker store; an
\* input met with an empty store, or whose text holds no stored marker, is
\* answered with nothing and leaves the store as it is; and the input event
\* that comes right after a transformed one with the same text is not
\* transformed.
C19_MarkersSingleUse ==
    [][(pc = "idle" /\ last'.h = "input")
         => LET text == last'.payload
                held == \E i \in 1..Len(activeFileMarkers) :
                            activeFileMarkers[i].marker \in Range(text)
            IN /\ IF held
                  THEN /\ ret'.kind = "transform"
                       /\ ret'.images = last'.images
                       /\ activeFileMarkers' = <<>>
                  ELSE /\ ret' = RetUndefined
                       /\ UNCHANGED activeFileMarkers
               /\ (last.h = "input" /\ ret.kind = "transform" /\ text = last.payload)
                    => ret' = RetUndefined
               /\ UNCHANGED <<pendingHandoff, handoffTimestamp, pendingHandoffText,
                              sessionStore>>
      ]_vars

\* a text of the user's own around one marker was expanded, images kept
C19_Witness ==
    /\ last.h = "input" /\ last.payload = <<"see", "[+1 read filename]">>
    /\ ret = RetTransform(<<"see", "<read-files>", "src/db.ts", "</read-files>">>,
                          <<"screenshot.png">>)
    /\ activeFileMarkers = <<>>

\* the collapsed markers a prompt can hold
Markers ==
    {createReadMarker(n) : n \in 1..Len(PathOrder)}
        \cup {createModifiedMarker(n) : n \in 1..Len(PathOrder)}

\* the file lists of the one conversation with file operations
OpsExpansions == buildFileOperations(ConvOps)[1].expansions

\* C20: when the editor holds a handoff prompt with collapsed markers and the
\* user submits it unchanged as the next input, the input is transformed
\* into the prompt with every marker replaced by the file list computed for
\* that handoff, and no marker is left in it.
C20_SubmittedPromptExpands ==
    [][(pc = "idle" /\ last'.h = "input" /\ last'.payload = editorText
        /\ Range(editorText) \cap Markers # {})
         => /\ ret'.kind = "transform"
            /\ Range(ret'.text) \cap Markers = {}
            /\ \A i \in 1..Len(OpsExpansions) :
                   \A k \in 1..Len(OpsExpansions[i].expanded) :
                       OpsExpansions[i].expanded[k] \in Range(ret'.text)
      ]_vars

\* the lines of a text that are markers of a store
StoredIn(text, markers) ==
    {j \in 1..Len(text) : \E i \in 1..Len(markers) : text[j] = markers[i].marker}

\* C21: expandFileMarkers returns a text that holds no stored marker
\* unchanged, and what it returns holds no stored marker, so that applying
\* the same store to it again changes nothing.
C21_ExpansionIdempotent ==
    /\ (pc \in {"ops_again", "ops_done"} /\ StoredIn(editorText, activeFileMarkers) = {})
           => ret.text = editorText
    /\ pc = "ops_again" => StoredIn(ret.text, activeFileMarkers) = {}
    /\ pc = "ops_done" => ret.text = editorText

\* the paths the tool calls named `names` carry, read off the messages
PathsOf(messages, names) ==
    {p \in OpsPaths :
        \E m \in 1..Len(messages) :
            /\ messages[m].role = "assistant" /\ messages[m].isArray
            /\ \E b \in 1..Len(messages[m].content) :
                   LET block == messages[m].content[b]
                   IN block.type = "toolCall" /\ block.hasArgs
                      /\ block.name \in names /\ block.path = p}
ModifiedOf(messages) == PathsOf(messages, {"write", "edit"})
ReadOnlyOf(messages) == PathsOf(messages, {"read"}) \ ModifiedOf(messages)

\* the positions of a text between a line `open` and the next line `close`
InsideOf(text, open, close) ==
    {j \in 1..Len(text) :
        /\ \E i \in 1..(j - 1) :
               text[i] = open /\ \A k \in (i + 1)..j : text[k] \notin {open, close}
        /\ \E k \in (j + 1)..Len(text) : text[k] = close}
LinesAt(text, J) == {text[j] : j \in J}

\* C22: the text expandFileMarkers makes of the markers buildFileOperations
\* returned holds every read-only path on a line of its own between
\* <read-files> and </read-files>, every modified path between
\* <modified-files> and </modified-files>, and no path anywhere else.
C22_MarkersRoundTrip ==
    (pc = "ops_again" /\ frame[1].fileOps # Null
     /\ \A i \in 1..Len(frame[1].fileOps[1].markers) :
            frame[1].fileOps[1].markers[i] \in Range(editorText))
        => LET text == ret.text
               inRead == InsideOf(text, "<read-files>", "</read-files>")
               inModified == InsideOf(text, "<modified-files>", "</modified-files>")
           IN /\ LinesAt(text, inRead) = ReadOnlyOf(frame[1].messages)
              /\ LinesAt(text, inModified) = ModifiedOf(frame[1].messages)
              /\ \A j \in 1..Len(text) :
                     text[j] \in OpsPaths => j \in inRead \cup inModified

\* the paths between the tags of the store's entry that opens with `open`
ListOf(entries, open) ==
    LET hits == SelectSeq(entries, LAMBDA e : e.expanded[1] = open)
    IN IF hits = <<>> THEN <<>> ELSE SubSeq(hits[1].expanded, 2, Len(hits[1].expanded) - 1)

\* code-unit order of the paths, the order of Array.prototype.sort
LexRank ==
    [p \in OpsPaths |->
        IF p = "[+1 modified filename]" THEN 1
        ELSE IF p = "[+1 read filename]" THEN 2
        ELSE IF p = "src/auth.ts" THEN 3
        ELSE 4]
Ascending(list) == \A i, j \in 1..Len(list) : i < j => LexRank[list[i]] < LexRank[list[j]]

\* C23: the modified list of buildFileOperations is the paths written or
\* edited, the read list is the paths read and not modified; the two lists
\* share no path, repeat none and are in ascending order; the paths are those
\* of toolCall blocks named read, write or edit with a string path, in
\* assistant messages whose content is a list.
C23_FileOpGroups ==
    pc \in {"ops_expand", "ops_again", "ops_done"}
        => LET readFiles == ListOf(activeFileMarkers, "<read-files>")
               modifiedFiles == ListOf(activeFileMarkers, "<modified-files>")
           IN /\ Range(modifiedFiles) = ModifiedOf(frame[1].messages)
              /\ Range(readFiles) = ReadOnlyOf(frame[1].messages)
              /\ Range(readFiles) \cap Range(modifiedFiles) = {}
              /\ Ascending(readFiles) /\ Ascending(modifiedFiles)

\* a file both read and edited, listed once and as modified, after the groups are built
C23_Witness ==
    /\ pc = "ops_expand"
    /\ PathsOf(frame[1].messages, {"read"}) \cap PathsOf(frame[1].messages, {"edit"}) # {}
    /\ ListOf(activeFileMarkers, "<read-files>") = <<>>
    /\ Len(ListOf(activeFileMarkers, "<modified-files>")) = 1

\* the marker of a group of n paths, written out
MarkerText(what, n) ==
    IF n = 1 THEN "[+1 " \o what \o " filename]"
    ELSE "[+" \o ToString(n) \o " " \o what \o " filenames]"

\* C24: buildFileOperations returns null exactly when no path is read-only
\* and none is modified; otherwise its markers are one line per non-empty
\* group, the read group's first, reading [+n read filename(s)] and
\* [+n modified filename(s)] with the singular exactly for n = 1, and the
\* expansions hold one entry per marker.
C24_MarkerLines ==
    pc \in {"ops_expand", "ops_again", "ops_done"}
        => LET nRead == Cardinality(ReadOnlyOf(frame[1].messages))
               nModified == Cardinality(ModifiedOf(frame[1].messages))
               expected == (IF nRead > 0 THEN <<MarkerText("read", nRead)>> ELSE <<>>)
                           \o (IF nModified > 0 THEN <<MarkerText("modified", nModified)>>
                               ELSE <<>>)
               fileOps == frame[1].fileOps
           IN /\ fileOps = Null <=> (nRead = 0 /\ nModified = 0)
              /\ fileOps # Null
                     => /\ fileOps[1].markers = expected
                        /\ Len(fileOps[1].expansions) = Len(expected)
                        /\ \A i \in 1..Len(expected) :
                               fileOps[1].expansions[i].marker = expected[i]

\* two files read and none modified: one marker, in the plural
C24_Witness ==
    /\ pc = "ops_expand"
    /\ frame[1].fileOps # Null
    /\ frame[1].fileOps[1].markers = <<"[+2 read filenames]">>

\* the parent a file names on disk, read off the store
DiskParent(f) ==
    IF \E i \in 1..nSessions : FilePath(i) = f /\ parentOf[i] \notin HeaderFaults
    THEN parentOf[CHOOSE i \in 1..nSessions : FilePath(i) = f]
    ELSE Undefined
NoRepeat(list) == \A i, j \in 1..Len(list) : i # j => list[i] # list[j]

\* C25: getSessionAncestry returns for every parent graph.  What it returns
\* starts with the given file, continues each path with the parent its
\* header names, repeats no path, and ends at the first path whose file is
\* missing, has no readable session header or names no parent, or whose
\* parent is already listed; a chain of n files without a cycle gives its n
\* paths in parent order.
C25_AncestryWalk ==
    /\ [](pc = "anc_loop" => NoRepeat(frame[1].ancestry))
    /\ [](pc = "anc_done"
            => LET ancestry == ret.list
                   n == Len(ancestry)
               IN /\ n >= 1 /\ ancestry[1] = frame[1].parentSessionFile
                  /\ \A i \in 1..(n - 1) : ancestry[i + 1] = DiskParent(ancestry[i])
                  /\ NoRepeat(ancestry)
                  /\ DiskParent(ancestry[n]) \in {Undefined} \cup Range(ancestry))
    /\ (pc = "anc_loop") ~> (pc = "anc_done")

\* two files naming each other as parent: the walk returned both, once each
C25_Witness ==
    /\ pc = "anc_done"
    /\ Len(ret.list) = 2
    /\ DiskParent(ret.list[2]) = ret.list[1]

\* C26: for a parent session file, wrapWithParentSession returns the line
\* /skill:pi-session-query, an empty line, the line **Parent session:** with
\* the first ancestor between backquotes, then, exactly when the ancestry has
\* further entries, an empty line, the line **Ancestor sessions:** and one
\* line "- " with the path between backquotes for each of them, then the
\* prompt as given; for no parent session file it returns the prompt as given.
C26_ParentHeader ==
    pc = "anc_wrapped"
        => LET ancestry == frame[1].ancestry
               n == Len(ancestry)
               text == ret.text
               body == editorText
               head == SubSeq(text, 1, Len(text) - Len(body))
           IN IF frame[1].parentSessionFile = Undefined THEN text = body
              ELSE /\ Len(text) >= Len(body) + 3
                   /\ SubSeq(text, Len(text) - Len(body) + 1, Len(text)) = body
                   /\ SubSeq(head, 1, 3) = <<"/skill:pi-session-query", "",
                                             "**Parent session:** <bq>" \o ancestry[1] \o "<bq>">>
                   /\ ("**Ancestor sessions:**" \in Range(head)) <=> (n > 1)
                   /\ n > 1 => /\ Len(head) = 4 + n
                               /\ head[4] = "" /\ head[5] = "**Ancestor sessions:**"
                               /\ \A i \in 2..n : head[4 + i] = "- <bq>" \o ancestry[i] \o "<bq>"
                   /\ n = 1 => Len(head) = 3

\* a parent with one ancestor behind it, wrapped around a prompt
C26_Witness ==
    /\ pc = "anc_wrapped"
    /\ frame[1].parentSessionFile # Undefined
    /\ Len(frame[1].ancestry) = 2
    /\ editorText # <<>>
    /\ Len(ret.text) = 6 + Len(editorText)

\* the name of a goal before the cut, read off the goal by position: a
\* character of [A-Za-z0-9-] is kept, in lower case, and a hyphen is written
\* before it when whitespace lies between it and the kept character before it
KeptAt(goal, i) == goal[i] \in {"A", "b", "2", "-"}
GapBefore(goal, i) ==
    \E h \in 1..(i - 1) :
        /\ KeptAt(goal, h)
        /\ \A k \in (h + 1)..(i - 1) : ~KeptAt(goal, k)
        /\ \E k \in (h + 1)..(i - 1) : goal[k] \in {" ", "\t"}
RECURSIVE SlugUpTo(_, _)
SlugUpTo(goal, i) ==
    IF i = 0 THEN <<>>
    ELSE SlugUpTo(goal, i - 1)
         \o (IF ~KeptAt(goal, i) THEN <<>>
             ELSE (IF GapBefore(goal, i) THEN <<"-">> ELSE <<>>)
                  \o <<IF goal[i] = "A" THEN "a" ELSE goal[i]>>)

\* C27: goalToSessionName returns the goal in lower case, without the
\* characters outside [a-z0-9], whitespace and '-', without whitespace at
\* either end, with one '-' for each run of whitespace, cut to its first 50
\* characters; the name holds only characters of [a-z0-9-], and a goal with
\* no character of [A-Za-z0-9-] gives the empty name.
C27_SessionName ==
    pc = "name_done"
        => LET goal == frame[1].goal
               name == ret.text
               whole == SlugUpTo(goal, Len(goal))
           IN /\ Len(name) <= 50 /\ Len(name) <= Len(whole)
              /\ name = SubSeq(whole, 1, Len(name))
              /\ Len(name) < 50 => name = whole
              /\ Range(name) \subseteq {"a", "b", "2", "-"}
              /\ Range(goal) \subseteq {" ", "\t", "#"} => name = <<>>

\* a goal of 60 characters, "Ab" and a tab twenty times over, and its name
\* "ab-ab-..." cut after 50 characters
C27_Witness ==
    /\ pc = "name_done"
    /\ Len(frame[1].goal) = 60
    /\ SubSeq(frame[1].goal, 1, 3) = <<"A", "b", "\t">>
    /\ Len(ret.text) = 50 /\ ret.text[50] = "b"

\* C28: for a system prompt s, before_agent_start returns s with the hint
\* after it: the lines of s, then "## Handoff", an empty line and three lines
\* of which the first names /handoff; pendingHandoff, handoffTimestamp,
\* pendingHandoffText and activeFileMarkers stay as they were.
C28_SystemPromptHint ==
    [][last'.h = "agent_start"
         => /\ ret'.kind = "systemPrompt"
            /\ LET s == last'.text
                   t == ret'.systemPrompt
               IN /\ Len(t) = Len(s) + 5
                  /\ SubSeq(t, 1, Len(s)) = s
                  /\ t[Len(s) + 1] = "## Handoff"
                  /\ t[Len(s) + 2] = ""
                  /\ t[Len(s) + 3] = "Use <bq>/handoff <goal><bq> to transfer context to a new focused session."
            /\ <<pendingHandoff, handoffTimestamp, pendingHandoffText, activeFileMarkers>>'
                   = <<pendingHandoff, handoffTimestamp, pendingHandoffText, activeFileMarkers>>
      ]_vars

\* an agent loop started on a four-line system prompt while a prompt with
\* its markers is waiting in the editor
C28_Witness ==
    /\ last.h = "agent_start"
    /\ Len(last.text) = 4
    /\ activeFileMarkers # <<>>
    /\ ret.kind = "systemPrompt"

\* C29: every handler that has finished has returned a value (undefined
\* included): none has let an exception out, whether the model call failed,
\* the user cancelled or a new-session call threw.
C29_NoExceptionEscapes ==
    (pc = "idle" /\ last.h \in {"command", "tool", "compact", "agent_end", "session_switch",
                               "context", "input"})
        => ret.kind # "throw"

\* what the model call after a context event is given: the messages the
\* handler returned, or the event's own when it returned nothing
SeenByModel == IF ret.kind = "messages" THEN ret.messages ELSE last.payload

\* C30: from a raw newSession call that succeeded to the next session_switch
\* event, every message given to a model call has a timestamp at or after
\* handoffTimestamp.
C30_OnlyNewMessages ==
    (epoch = "raw" /\ last.h = "context" /\ handoffTimestamp # Null)
        => \A i \in 1..Len(SeenByModel) : SeenByModel[i].timestamp >= handoffTimestamp[1]

\* C31: when the raw newSession call of the compact hook throws, the hook
\* emits one warning that mentions compacting instead and returns
\* undefined, never sets the editor or the marker store, and leaves
\* pendingHandoff, handoffTimestamp, pendingHandoffText and activeFileMarkers
\* with the values they had before the hook ran.
C31_SwitchFailureFallsBack ==
    [][/\ (pc' \in {"cmp_select", "cmp_gen"} /\ pc' # pc) => UNCHANGED registers
       /\ (pc = "cmp_gen" /\ pc' = "idle" /\ last'.threw)
            => LET added == Added(fx, fx')
               IN /\ Len(added) = 2
                  /\ added[1].op = "newSession" /\ added[1].threw
                  /\ added[2].op = "notify" /\ added[2].level = "warning"
                  /\ CompactingInstead \in Range(added[2].text)
                  /\ ret' = RetUndefined
                  /\ CallsOf(fx', "compact", "setEditorText") = {}
                  /\ UNCHANGED <<sessionStore, editorText, registers>>
      ]_vars

\* C31, amended: when the raw newSession call of the compact hook throws,
\* the hook emits one warning that mentions compacting instead and returns
\* undefined, never sets the editor or the marker store, leaves
\* pendingHandoff, pendingHandoffText, activeFileMarkers and the session as
\* they were, and leaves handoffTimestamp null, whatever it held before.
C31_SwitchFailureResets ==
    [][/\ (pc' \in {"cmp_select", "cmp_gen"} /\ pc' # pc) => UNCHANGED registers
       /\ (pc = "cmp_gen" /\ pc' = "idle" /\ last'.threw)
            => LET added == Added(fx, fx')
               IN /\ Len(added) = 2
                  /\ added[1].op = "newSession" /\ added[1].threw
                  /\ added[2].op = "notify" /\ added[2].level = "warning"
                  /\ CompactingInstead \in Range(added[2].text)
                  /\ ret' = RetUndefined
                  /\ CallsOf(fx', "compact", "setEditorText") = {}
                  /\ handoffTimestamp' = Null
                  /\ UNCHANGED <<sessionStore, editorText, pendingHandoff, pendingHandoffText,
                                 activeFileMarkers>>
      ]_vars

\* the hook has ended on a throwing newSession call, warned and returned
\* undefined, in the session it started in
C31_Witness ==
    /\ last.h = "compact" /\ last.done /\ last.threw
    /\ ret = RetUndefined /\ handoffTimestamp = Null
    /\ nSessions = 1 /\ editorText = <<>>
    /\ fx[Len(fx)].level = "warning"

\* the lines of a text that are collapsed markers
MarkerLines(text) == {j \in 1..Len(text) : text[j] \in Markers}

\* C32: pendingHandoff holds the record of the last successful execute():
\* an execute() that finds one pending replaces it by its own prompt and
\* session file; the agent_end that follows makes one raw newSession call
\* with the parent of that record, schedules one install of its prompt, and
\* the install puts that prompt in the editor.
C32_LastWriterWins ==
    [][/\ (pc = "tool_gen" /\ pc' = "idle" /\ last'.gen = "prompt")
            => LET fileOps == buildFileOperations(frame[1].messages)
                   body == IF fileOps = Null THEN last'.text
                           ELSE last'.text \o <<"">> \o fileOps[1].markers
               IN /\ pendingHandoff' # Null
                  /\ pendingHandoff'[1].parentSession = getSessionFile
                  /\ LET prompt == pendingHandoff'[1].prompt
                     IN /\ Len(prompt) >= Len(body)
                        /\ SubSeq(prompt, Len(prompt) - Len(body) + 1, Len(prompt)) = body
                        /\ MarkerLines(prompt) = {} <=> fileOps = Null
       /\ (agentRunning /\ ~agentRunning' /\ pendingHandoff # Null /\ ~last'.threw)
            => /\ Cardinality(NewSessionCalls(fx')) = 1
               /\ fx'[1].parentSession = pendingHandoff[1].parentSession
               /\ parentOf'[current'] = pendingHandoff[1].parentSession
               /\ timers' = Append(timers, [prompt |-> pendingHandoff[1].prompt])
               /\ pendingHandoff' = Null
       /\ (timers # <<>> /\ timers' = Tail(timers) /\ hasUI)
            => editorText' = Head(timers).prompt
      ]_vars

\* a first execute() on a conversation with file operations, a second on one
\* without, then agent_end: the install scheduled is of the second prompt
C32_Witness ==
    /\ last.h = "agent_end" /\ last.armed /\ ~last.threw
    /\ nSessions = 2 /\ activeFileMarkers # <<>>
    /\ Len(timers) = 1 /\ MarkerLines(timers[1].prompt) = {}

\* C33: pendingHandoff changes in two steps only: a successful execute()
\* arms it and agent_end empties it.  No step of the command, the compact
\* hook, session_switch, context, input or before_agent_start changes it,
\* so that a handoff armed stays armed until the next agent_end.
C33_PendingFrame ==
    [][pendingHandoff' # pendingHandoff
         => \/ /\ pc = "tool_gen" /\ pc' = "idle" /\ last'.h = "tool" /\ last'.gen = "prompt"
               /\ pendingHandoff' # Null
            \/ /\ pc = "idle" /\ last'.h = "agent_end" /\ last'.armed
               /\ pendingHandoff' = Null
      ]_vars

\* a handoff armed before a /handoff command ran to its end, and still armed
C33_Witness ==
    /\ pendingHandoff # Null
    /\ last.h = "command" /\ last.done /\ nSessions = 2
    /\ editorText # <<>>

\* the raw newSession calls recorded in an effect log
RawCalls(log) ==
    {i \in 1..Len(log) : log[i].op = "newSession" /\ log[i].api = "sessionManager.newSession"}

\* C34: handoffTimestamp goes from null to a value only in the agent_end
\* that drains an armed pendingHandoff and in the compact hook once the
\* summary is there, in both in the step that makes the raw newSession
\* call; no step of the /handoff command gives it a value.  In every state
\* a non-null handoffTimestamp implies a raw newSession call since the last
\* session_switch event.
C34_TimestampOnlyOnRawSwitch ==
    /\ [](handoffTimestamp # Null => epoch = "raw")
    /\ [][/\ (handoffTimestamp = Null /\ handoffTimestamp' # Null)
               => /\ \/ pc = "idle" /\ last'.h = "agent_end" /\ last'.armed
                     \/ pc = "cmp_gen" /\ last'.h = "compact" /\ last'.gen = "prompt"
                  /\ RawCalls(fx') # {}
                  /\ handoffTimestamp' = Some(clock)
          /\ pc \in {"cmd_gen", "cmd_new", "cmd_ret"}
               => handoffTimestamp' \in {handoffTimestamp, Null}
         ]_vars

\* the compact hook has switched: the timestamp is set and no session_switch
\* event has followed the raw call
C34_Witness ==
    /\ handoffTimestamp # Null /\ epoch = "raw"
    /\ last.h = "compact" /\ last.gen = "prompt" /\ ~last.threw
    /\ RawCalls(fx) # {}

\* the positions of the calls of one kind in an effect log
OpsAt(log, op) == {i \in 1..Len(log) : log[i].op = op}

\* C35: in both raw-switch paths handoffTimestamp is assigned before the
\* raw newSession call and the editor is set after it.  The compact hook
\* does all three inside the handler; agent_end returns having touched
\* neither the editor nor the notifications, and the install it scheduled
\* runs in a later step, which exists only once the raw call has succeeded.
C35_SwitchOrder ==
    [][/\ (pc = "cmp_gen" /\ pc' = "idle" /\ last'.gen = "prompt")
            => /\ Cardinality(RawCalls(fx')) = 1
               /\ LET i == CHOOSE k \in RawCalls(fx') : TRUE
                  IN /\ fx'[i].stamp = Some(clock)
                     /\ \A j \in CallsOf(fx', "compact", "setEditorText") : j > i
                     /\ ~last'.threw
                          => /\ CallsOf(fx', "compact", "setEditorText") # {}
                             /\ handoffTimestamp' = Some(clock)
                             /\ current' = nSessions + 1
                             /\ editorText' = fx'[Len(fx') - 1].text
       /\ (pc = "idle" /\ last'.h = "agent_end" /\ last'.armed)
            => /\ RawCalls(fx') = {1} /\ Len(fx') = 1
               /\ fx'[1].stamp = Some(clock)
               /\ handoffTimestamp' = Some(clock)
               /\ editorText' = editorText
               /\ Len(timers') = Len(timers) + (IF last'.threw THEN 0 ELSE 1)
       /\ Len(timers') > Len(timers)
            => /\ last'.h = "agent_end" /\ ~last'.threw
               /\ RawCalls(fx') = {1} /\ current' = nSessions + 1
       /\ \A j \in OpsAt(fx', "setEditorText") :
              fx'[j].by = "timer" /\ (j > Len(fx) \/ fx'[j] # fx[j])
                  => /\ timers # <<>> /\ timers' = Tail(timers)
                     /\ fx'[j].text = Head(timers).prompt
                     /\ last'.h # "agent_end" \/ pc # "idle"
      ]_vars

\* the install scheduled by an agent_end has run after the handler returned
C35_Witness ==
    /\ last.h = "timer" /\ OpsAt(fx, "setEditorText") = {1}
    /\ editorText # <<>> /\ handoffTimestamp # Null
    /\ nSessions = 2 /\ current = 2

\* C36: activeFileMarkers goes from empty to armed only in a step of a
\* handler that has put a handoff prompt in the editor, the prompt being
\* what the editor holds after the step, and from armed to empty only in
\* an input event that expanded a marker.
C36_ArmedWithPrompt ==
    [][/\ (activeFileMarkers = <<>> /\ activeFileMarkers' # <<>>)
            => /\ MarkerLines(editorText') # {}
               /\ \E j \in OpsAt(fx', "setEditorText") : fx'[j].text = editorText'
       /\ (activeFileMarkers # <<>> /\ activeFileMarkers' = <<>>)
            => /\ last'.h = "input"
               /\ ret' # RetUndefined
      ]_vars

\* the position of the last setEditorText of an effect log
LastInstall(log) ==
    CHOOSE j \in OpsAt(log, "setEditorText") : \A k \in OpsAt(log, "setEditorText") : k <= j

\* C37: once a handoff has put its prompt in the editor and its handler is
\* through, a non-empty activeFileMarkers holds the markers that are lines
\* of that prompt: a prompt without marker lines leaves the store empty.
C37_MarkersOfLatestPrompt ==
    (/\ pc = "idle" /\ last.done
     /\ last.h \in {"compact", "command", "timer"}
     /\ OpsAt(fx, "setEditorText") # {}
     /\ activeFileMarkers # <<>>)
        => LET text == fx[LastInstall(fx)].text
           IN {activeFileMarkers[k].marker : k \in 1..Len(activeFileMarkers)}
                  = {text[j] : j \in MarkerLines(text)}

\* C38: pendingHandoffText is empty whenever no /handoff command is under
\* way: however the handler ends, it leaves no entry for the session file
\* it was invoked in.
C38_NoLeftoverEntry ==
    pc \notin {"cmd_gen", "cmd_new", "cmd_ret"} => DOMAIN pendingHandoffText = {}

\* C39: when the install scheduled by an agent_end drain runs with a UI, the
\* editor receives the prompt of that drain and the current session is the
\* one the drain created.
C39_InstallInOwnSession ==
    [][(timers # <<>> /\ timers' = Tail(timers) /\ hasUI)
         => /\ editorText' = Head(timers).prompt
            /\ \E h \in owed : /\ h.via = "tool" /\ h.prompt = Head(timers).prompt
                                /\ h.session = current
      ]_vars

\* C40: a session_switch event whose reason is not new, or that comes
\* without a UI, or whose new session names no parent or a parent without an
\* entry in pendingHandoffText, clears handoffTimestamp and does nothing
\* else: no setEditorText, no notification, the editor, pendingHandoffText,
\* activeFileMarkers and pendingHandoff as they were.
C40_SwitchWithoutPendingText ==
    [][LET event == last'.h = "session_switch" /\ pc = "idle"
           inner == pc = "cmd_new" /\ pc' = "cmd_ret"
           reason == IF inner THEN "new" ELSE last'.choice
           parentSession == parentOf'[current']
       IN ((event \/ inner)
           /\ (\/ reason # "new" \/ ~hasUI
               \/ parentSession = Undefined
               \/ parentSession \notin DOMAIN pendingHandoffText))
            => /\ handoffTimestamp' = Null
               /\ editorText' = editorText
               /\ fx' = (IF inner THEN fx ELSE <<>>)
               /\ pendingHandoffText' = pendingHandoffText
               /\ activeFileMarkers' = activeFileMarkers
               /\ pendingHandoff' = pendingHandoff
      ]_vars

\* a resume that found an entry left in pendingHandoffText and left it there
C40_Witness ==
    /\ last.h = "session_switch" /\ last.choice = "resume" /\ hasUI
    /\ DOMAIN pendingHandoffText # {}
    /\ handoffTimestamp = Null /\ fx = <<>> /\ editorText = <<>>

====
